---- MODULE Spec2Model ----
(***************************************************************************)
(* A model of travesty's dispatch substrate (cantrips/dispatcher.py,       *)
(* dispatch_graph.py) and of its cycle-safe document operations            *)
(* (document/document.py, document/docset.py).                             *)
(*                                                                         *)
(* Registries are numbered 1..nreg in creation order.  Keys are integers.  *)
(* A handler is the record [reg, key, kind]: the registry and key it was   *)
(* written for and what its body does (returns, delegates with super, or   *)
(* delegates with parent).                                                 *)
(***************************************************************************)
EXTENDS Integers, Sequences, FiniteSets, TLC

VARIABLES
    nreg,          \* number of Dispatcher objects constructed so far
    mapping,       \* Dispatcher.mapping      : registry -> (key -> handler)
    _default,      \* Dispatcher._default     : registry -> handler
    keyfn,         \* Dispatcher.keyfn        : registry -> key function
    dispatch_mro,  \* Dispatcher.dispatch_mro : registry -> sequence of registries
    parents,       \* history: the parents argument each registry was built with
    attempt,       \* history: the last call of Dispatcher.__init__ and its outcome
    defaults,      \* registry -> argument name -> registered default
    sub_of,        \* history: registry -> the registry whose sub() built it, or 0
    nops,          \* number of register / set_default calls made so far
    cur,           \* the call about to be made (by the caller or by a handler)
    trace,         \* the handler invocations of the running top-level call
    raised,        \* the exception that ended the last top-level call
    heap,          \* the Document objects, source objects first
    nsrc,          \* number of source objects (heap[1..nsrc])
    doc_op,        \* the top-level operation applied to the documents
    stack,         \* its handler frames, innermost last
    _tv_docs_processed,  \* kwargs['_tv_docs_processed'] of the call
    in_docset,     \* kwargs['in_docset'].document_map of the call
    doc_storage,   \* kwargs['doc_storage'] of the call: uid -> stored form
    out,           \* what the call has produced so far
    enc,           \* history: each encounter of a document and what it gave
    visits,        \* history: leaf handler calls per source object and field
    accum,         \* the accumulator of a leaf handler that sums Int leaves
    outcome        \* "none", "running", "returned" or the exception raised

dvars == <<nreg, mapping, _default, keyfn, dispatch_mro, parents, attempt,
          defaults, sub_of, nops>>
rvars == <<cur, trace, raised>>
docvars == <<heap, nsrc, doc_op, stack, _tv_docs_processed, in_docset,
            doc_storage, out,
            enc, visits, accum, outcome>>

-----------------------------------------------------------------------------
(* Bounds *)

MaxReg == 3        \* registries in the direct-call scenario
MaxRegGraph == 2   \* registries in the graph scenario
MaxRegMro == 5     \* registries in the construction-only scenario
MaxParents == 2    \* length of a parents argument
MaxVal == 2        \* values are sized objects of length 0..MaxVal
MaxOps == 2        \* register / set_default calls in the direct-call scenario
MaxOpsGraph == 3   \* register / set_default calls in the graph scenario
MaxDepth == MaxReg + MaxVal + 3   \* nested handler calls before RecursionError
MaxDocs == 3       \* documents of an arbitrary document graph
MaxKids == 2       \* documents listed by the first document of such a graph
MaxList == 5       \* nodes of a linked list of documents
MaxObjs == 2       \* Document objects in the DocSet scenario
MaxUid == 2        \* uids per document type in the DocSet scenario
MaxRegWrap == 3    \* registries in the wrapper scenario, base_dispatcher included
MaxOpsWrap == 2    \* register calls in the wrapper scenario
MaxWrap == 2       \* Wrapper layers around a descriptor
MaxFields == 2     \* children of a Schema
MaxMergeLists == 3 \* lists given to one call of merge
MaxMergeLen == 2   \* length of a list given to merge
MaxRegKw == 3      \* registries in the keyword-default scenario
MaxOpsKw == 2      \* default_value / default_factory calls in that scenario
MaxCalls == 2      \* top-level calls on one document graph, one after the other
DocDepthLimit == MaxList + 2      \* nested document handlers before RecursionError

-----------------------------------------------------------------------------
(* cantrips/dispatcher.py: merge *)

Range(s) == {s[i] : i \in 1..Len(s)}
NoDup(s) == \A i, j \in 1..Len(s) : s[i] = s[j] => i = j

\* list.remove(x): drop the first element equal to x
RECURSIVE list_remove(_, _)
list_remove(lists, x) ==
    IF lists = <<>> THEN <<>>
    ELSE IF Head(lists) = x THEN Tail(lists)
    ELSE <<Head(lists)>> \o list_remove(Tail(lists), x)

\* Counter(): every element of the lists counted 0
EmptyCounter(lists) ==
    [e \in UNION {Range(lists[i]) : i \in 1..Len(lists)} |-> 0]

\* tails.update(list[1:]) for each list
RECURSIVE CountTails(_, _)
CountTails(lists, tails) ==
    IF lists = <<>> THEN tails
    ELSE LET l == Head(lists)
             t == IF l = <<>> THEN <<>> ELSE Tail(l)
             upd == [e \in DOMAIN tails |->
                        tails[e] + Cardinality({i \in 1..Len(t) : t[i] = e})]
         IN  CountTails(Tail(lists), upd)

\* the for/else of _merge_one: the first non-empty list whose head is in no
\* tail; 0 when the loop ends without break
RECURSIVE FirstFreeHead(_, _, _)
FirstFreeHead(lists, tails, i) ==
    IF i > Len(lists) THEN 0
    ELSE IF lists[i] # <<>> /\ tails[Head(lists[i])] = 0 THEN i
    ELSE FirstFreeHead(lists, tails, i + 1)

\* a variant that pops h from the first list starting with it only
PopHeadsFirstOnly(lists, tails, h, i) ==
    LET c == CHOOSE j \in 1..Len(lists) :
                 /\ lists[j] # <<>> /\ Head(lists[j]) = h
                 /\ \A k \in 1..(j - 1) : lists[k] = <<>> \/ Head(lists[k]) # h
        popped == Tail(lists[c])
        kept == [lists EXCEPT ![c] = popped]
    IN  [lists |-> SelectSeq(kept, LAMBDA l : l # <<>>),
         tails |-> IF popped = <<>> THEN tails
                   ELSE [tails EXCEPT ![Head(popped)] = @ - 1]]

\* the while loop of _merge_one
RECURSIVE PopHeads(_, _, _, _)
PopHeads(lists, tails, h, i) ==
    IF i > Len(lists) THEN [lists |-> lists, tails |-> tails]
    ELSE LET list == lists[i] IN
         IF list = <<>> THEN PopHeads(list_remove(lists, list), tails, h, i)
         ELSE IF Head(list) = h
              THEN LET popped == Tail(list)
                       lists2 == [lists EXCEPT ![i] = popped]
                   IN  IF popped = <<>>
                       THEN PopHeads(list_remove(lists2, popped), tails, h, i)
                       ELSE PopHeads(lists2,
                                     [tails EXCEPT ![Head(popped)] = @ - 1],
                                     h, i + 1)
              ELSE PopHeads(lists, tails, h, i + 1)

\* a variant that takes the first non-empty head when no head is free
MergeOneNoRaise(lists, tails) ==
    LET f == FirstFreeHead(lists, tails, 1)
        nonempty == {j \in 1..Len(lists) : lists[j] # <<>>}
        c == IF f # 0 \/ nonempty = {} THEN f
             ELSE CHOOSE j \in nonempty : \A k \in nonempty : j <= k
    IN  IF c = 0
        THEN [ok |-> FALSE, h |-> 0, lists |-> lists, tails |-> tails]
        ELSE LET h == Head(lists[c])
                 r == PopHeads(lists, tails, h, 1)
             IN  [ok |-> TRUE, h |-> h, lists |-> r.lists, tails |-> r.tails]

_merge_one(lists, tails) ==
    LET c == FirstFreeHead(lists, tails, 1) IN
    IF c = 0
    THEN [ok |-> FALSE, h |-> 0, lists |-> lists, tails |-> tails]
    ELSE LET h == Head(lists[c])
             r == PopHeads(lists, tails, h, 1)
         IN  [ok |-> TRUE, h |-> h, lists |-> r.lists, tails |-> r.tails]

\* while lists: yield _merge_one(lists, tails)
RECURSIVE MergeLoop(_, _, _)
MergeLoop(lists, tails, acc) ==
    IF lists = <<>> THEN [ok |-> TRUE, order |-> acc]
    ELSE LET r == _merge_one(lists, tails) IN
         IF ~r.ok THEN [ok |-> FALSE, order |-> <<>>]
         ELSE MergeLoop(r.lists, r.tails, Append(acc, r.h))

_merge(lists) == MergeLoop(lists, CountTails(lists, EmptyCounter(lists)), <<>>)

\* merge(lists): [ok |-> TRUE, order |-> the merged list], or ok = FALSE for
\* ValueError('Cannot create a consistent merge order for lists.')
merge(lists) == _merge(lists)

\* a variant that keeps value itself
SliceFrom(list, value) ==
    LET i == CHOOSE j \in 1..Len(list) :
                 list[j] = value /\ \A k \in 1..(j - 1) : list[k] # value
    IN  SubSeq(list, i, Len(list))

\* slice_at(list, value): the items after the first occurrence of value
slice_at(list, value) ==
    LET i == CHOOSE j \in 1..Len(list) :
                 list[j] = value /\ \A k \in 1..(j - 1) : list[k] # value
    IN  SubSeq(list, i + 1, Len(list))

-----------------------------------------------------------------------------
(* cantrips/dispatcher.py: Dispatcher construction *)

NoKeyfn == "None"                 \* keyfn=None: type(val).__mro__
RangeKeyfn == "range"             \* keyfn=lambda x: range(len(x), -1, -1)
KeyFns == {NoKeyfn, RangeKeyfn}

\* Keys.  A value is an instance of class Cls(n) holding n items, where
\* Cls(n) derives from Cls(n-1) and Cls(0) from object.  The range key
\* function yields the integers n..0; the default one yields the classes of
\* type(val).__mro__, numbered above the integers.
IntKeys == 0..MaxVal
Cls(n) == MaxVal + 1 + n
ClsKeys == {Cls(n) : n \in 0..MaxVal}
KObject == Cls(MaxVal) + 1
KSuperMarker == KObject + 1
KTuple == KObject + 2
Keys == IntKeys \cup ClsKeys      \* the keys handlers are registered for
Kinds == {"ret", "super", "parent"}

\* base.py: class Marker(SubclassMixin), class Wrapper(Marker), and the two
\* Wrapper subclasses Foo and Bar of the tests
KSubclassMixin == KTuple + 1
KMarker == KTuple + 2
KWrapper == KTuple + 3
KFoo == KTuple + 4
KBar == KTuple + 5
WrapperKinds == {KFoo, KBar}
MarkerKeys == {KMarker, KWrapper} \cup WrapperKinds

NoFn == [reg |-> 0, key |-> 0, kind |-> "None"]
Handler(r, k, kind) == [reg |-> r, key |-> k, kind |-> kind]
DefaultFn(r) == [reg |-> r, key |-> -1, kind |-> "ret"]

Regs == 1..nreg

\* keyword arguments: the names handlers take and the values given for them;
\* NoArg stands for a name that is not given
ArgNames == {"x", "y"}
ArgVals == 1..2
NoArg == [given |-> FALSE]
Given(v) == [given |-> TRUE, v |-> v]
NoDefaults == [a \in ArgNames |-> NoArg]

NoAttempt == [parents |-> <<>>, keyfn |-> NoKeyfn, ok |-> TRUE, made |-> 0]

InitRegs ==
    /\ nreg = 0
    /\ mapping = <<>>
    /\ _default = <<>>
    /\ keyfn = <<>>
    /\ dispatch_mro = <<>>
    /\ parents = <<>>
    /\ attempt = NoAttempt
    /\ sub_of = <<>>
    /\ defaults = <<>>
    /\ nops = 0

InitRun ==
    /\ cur = [active |-> FALSE]
    /\ trace = <<>>
    /\ raised = [type |-> "None"]

\* Dispatcher.__init__(mapping=None, default=None, keyfn=kf, parents=ps);
\* by is the registry whose sub() makes the call, or 0
Dispatcher__init__(kf, ps, by) ==
    LET self == nreg + 1 IN
    \E m \in {merge([i \in 1..Len(ps) |-> dispatch_mro[ps[i]]])} :
        IF ps # <<>> /\ ~m.ok
        THEN \* merge raised ValueError: no object is returned
             /\ attempt' = [parents |-> ps, keyfn |-> kf, ok |-> FALSE, made |-> 0]
             /\ UNCHANGED <<nreg, mapping, _default, keyfn, dispatch_mro,
                            parents, defaults, sub_of, nops>>
        ELSE /\ nreg' = self
             /\ mapping' = Append(mapping, [k \in Keys \cup MarkerKeys |-> NoFn])
             /\ _default' = Append(_default, NoFn)
             /\ keyfn' = Append(keyfn,
                    IF ps # <<>> /\ kf = NoKeyfn THEN keyfn[ps[1]] ELSE kf)
             /\ dispatch_mro' = Append(dispatch_mro,
                    IF ps # <<>> THEN <<self>> \o m.order ELSE <<self>>)
             /\ parents' = Append(parents, ps)
             /\ sub_of' = Append(sub_of, by)
             /\ defaults' = Append(defaults, NoDefaults)
             /\ attempt' = [parents |-> ps, keyfn |-> kf, ok |-> TRUE, made |-> self]
             /\ UNCHANGED nops

\* parents arguments: distinct registries in any order, or one given twice
ParentArgs ==
    {ps \in UNION {[1..n -> Regs] : n \in 0..MaxParents} : NoDup(ps)}
    \cup {<<p, p>> : p \in Regs}

\* construction-only scenario: registries with the default key function
\* (a ValueError from the constructor ends the scenario: the registries are
\* as they were before the failed call)
NewDispatcherMro ==
    /\ attempt.ok
    /\ \E ps \in ParentArgs : Dispatcher__init__(NoKeyfn, ps, 0)
    /\ nreg' <= MaxRegMro
    /\ UNCHANGED <<rvars, docvars>>


-----------------------------------------------------------------------------
(* cantrips/dispatcher.py: registration *)

\* no top-level call is running and none has left its record
Idle == ~cur.active /\ trace = <<>> /\ raised.type = "None"

\* the keys a registry's key function can produce for a value
KeysOfKeyfn(kf) == IF kf = NoKeyfn THEN ClsKeys ELSE IntKeys

\* a variant that stores fn in every registry of r's resolution order
RegisterInAll(r, k, fn) ==
    mapping' = [q \in Regs |->
                   IF q \in Range(dispatch_mro[r])
                   THEN [mapping[q] EXCEPT ![k] = fn] ELSE mapping[q]]

\* register((k,), fn): self.mapping[k] = fn
register(r, k, fn) ==
    mapping' = [mapping EXCEPT ![r][k] = fn]

\* set_default(fn): self._default = fn
set_default(r, fn) ==
    _default' = [_default EXCEPT ![r] = fn]

\* a variant that builds the new registry without a parent
SubNoParent(r) == Dispatcher__init__(keyfn[r], <<>>, r)

\* sub(): Dispatcher(parents=[self], keyfn=self.keyfn)
sub(r) == Dispatcher__init__(keyfn[r], <<r>>, r)

-----------------------------------------------------------------------------
(* cantrips/dispatcher.py: resolution *)

Plain(n) == [sm |-> FALSE, n |-> n]
SuperMarker(k, v) == [sm |-> TRUE, key |-> k, val |-> v]

\* a target with one SuperMarker peeled off
Unwrap(t) == IF t.sm THEN t.val ELSE t

\* a Dispatcher d, or DispatchSuper(above, d)
AsDispatcher(d) == [super |-> FALSE, above |-> 0, disp |-> d]
DispatchSuper(above, d) == [super |-> TRUE, above |-> above, disp |-> d]

\* lambda x: range(len(x), -1, -1); a SuperMarker is a tuple of two items
RangeKeys(x) ==
    LET n == IF x.sm THEN 2 ELSE x.n IN [i \in 1..(n + 1) |-> n + 1 - i]

\* a descriptor: a Marker of class Cls(n) (here the classes Cls derive from
\* Marker) inside the Wrapper layers ws, outermost first: Foo(Bar(Int())) is
\* Wrapped(<<KFoo, KBar>>, n)
Wrapped(ws, n) == [sm |-> FALSE, n |-> n, wraps |-> ws]
IsDescriptor(x) == "wraps" \in DOMAIN x

\* wrapper.marker
Peel(m) == [m EXCEPT !.wraps = Tail(@)]

\* type(x).__mro__
TypeMro(x) ==
    IF x.sm THEN <<KSuperMarker, KTuple, KObject>>
    ELSE IF IsDescriptor(x)
    THEN IF x.wraps # <<>>
         THEN <<Head(x.wraps), KWrapper, KMarker, KSubclassMixin, KObject>>
         ELSE [i \in 1..(x.n + 1) |-> Cls(x.n + 1 - i)]
                  \o <<KMarker, KSubclassMixin, KObject>>
    ELSE [i \in 1..(x.n + 1) |-> Cls(x.n + 1 - i)] \o <<KObject>>

\* Dispatcher._to_keys / DispatchSuper._to_keys
_to_keys(dt, val) ==
    IF keyfn[dt.disp] # NoKeyfn THEN RangeKeys(val) ELSE TypeMro(val)

\* self.dispatch_mro of a Dispatcher or of a DispatchSuper
MroOf(dt) ==
    IF dt.super THEN slice_at(dispatch_mro[dt.disp], dt.above)
    ELSE dispatch_mro[dt.disp]

\* Python truth of a key: the integer 0 is false, classes are true
Truthy(k) == k # 0

Index(list, value) ==
    CHOOSE j \in 1..Len(list) :
        list[j] = value /\ \A k \in 1..(j - 1) : list[k] # value

\* a variant that keeps start_key in the list
KeysFrom(keys, start_key) == SubSeq(keys, Index(keys, start_key), Len(keys))

\* keys[keys.index(start_key)+1:]
KeysAfter(keys, start_key) == SubSeq(keys, Index(keys, start_key) + 1, Len(keys))

_self_dispatch(r, key) ==
    IF key \in DOMAIN mapping[r] THEN mapping[r][key] ELSE NoFn

\* _dispatch(key): the entry of the first registry of mro that has one
RECURSIVE _dispatch(_, _)
_dispatch(mro, key) ==
    IF mro = <<>> THEN NoFn
    ELSE IF _self_dispatch(Head(mro), key) # NoFn
         THEN _self_dispatch(Head(mro), key)
         ELSE _dispatch(Tail(mro), key)

RECURSIVE get_default(_)
get_default(mro) ==
    IF mro = <<>> THEN NoFn
    ELSE IF _default[Head(mro)] # NoFn THEN _default[Head(mro)]
    ELSE get_default(Tail(mro))

\* for key in keys: fn = self._dispatch(key); if fn: return fn
RECURSIVE ScanKeys(_, _)
ScanKeys(mro, keys) ==
    IF keys = <<>> THEN get_default(mro)
    ELSE IF _dispatch(mro, Head(keys)) # NoFn THEN _dispatch(mro, Head(keys))
    ELSE ScanKeys(mro, Tail(keys))

\* a variant that scans registry by registry, each over all the keys
RECURSIVE ScanRegistries(_, _, _)
ScanRegistries(mro, keys, all) ==
    IF mro = <<>> THEN get_default(all)
    ELSE LET hits == {i \in 1..Len(keys) : _self_dispatch(Head(mro), keys[i]) # NoFn}
         IN  IF hits # {}
             THEN _self_dispatch(Head(mro),
                                 keys[CHOOSE i \in hits : \A j \in hits : i <= j])
             ELSE ScanRegistries(Tail(mro), keys, all)

DispatchRegistryMajor(dt, target) ==
    LET keys == _to_keys(dt, Unwrap(target))
        start == target.sm /\ Truthy(target.key)
    IN  IF start /\ target.key \notin Range(keys)
        THEN [err |-> TRUE, fn |-> NoFn]
        ELSE LET ks == IF start THEN KeysAfter(keys, target.key) ELSE keys
             IN  [err |-> FALSE, fn |-> ScanRegistries(MroOf(dt), ks, MroOf(dt))]

\* dispatch(val): err is the ValueError of keys.index(start_key)
dispatch(dt, target) ==
    LET keys == _to_keys(dt, Unwrap(target))
        start == target.sm /\ Truthy(target.key)
    IN  IF start /\ target.key \notin Range(keys)
        THEN [err |-> TRUE, fn |-> NoFn]
        ELSE [err |-> FALSE,
              fn |-> ScanKeys(MroOf(dt),
                        IF start THEN KeysAfter(keys, target.key) ELSE keys)]

-----------------------------------------------------------------------------
(* Calls.  cur is the call about to be made: level "disp" is             *)
(* Dispatcher.call / DispatchSuper.call, level "graph" is                *)
(* DispatchGraph.__call__ on the node (target, disp_target).             *)

Pending(level, target, dt) ==
    [active |-> TRUE, level |-> level, target |-> target, dt |-> dt]

\* the value a handler is called with
PassedVal(c) ==
    IF c.level = "graph" THEN Unwrap(c.target)          \* node.marker
    ELSE IF c.dt.super THEN c.target                    \* DispatchSuper.call
    ELSE Unwrap(c.target)                               \* Dispatcher.call

\* a variant that strips every Wrapper layer at once
InnerPeelsAll(c) ==
    Pending("graph", [Unwrap(c.target) EXCEPT !.wraps = <<>>], c.dt)

\* dispgraph.inner(): self.for_marker(self.marker.marker)(...)
inner(c) ==
    Pending("graph", Peel(Unwrap(c.target)), c.dt)

\* a variant whose super() starts again from the root registry
HandlerBodySuperResets(fn, c, val) ==
    IF fn.kind = "super"
    THEN IF c.level = "graph"
         THEN Pending("graph", SuperMarker(fn.key, Unwrap(c.target)),
                      AsDispatcher(c.dt.disp))
         ELSE Pending("disp", SuperMarker(fn.key, val), AsDispatcher(c.dt.disp))
    ELSE IF fn.kind = "parent"
    THEN IF c.level = "graph"
         THEN Pending("graph", c.target, DispatchSuper(fn.reg, c.dt.disp))
         ELSE Pending("disp", val, DispatchSuper(fn.reg, c.dt.disp))
    ELSE IF fn.kind = "inner"
    THEN \* dispgraph.inner(...)
         inner(c)
    ELSE [active |-> FALSE]

\* what handler fn, called for c with value val, calls next
HandlerBody(fn, c, val) ==
    IF fn.kind = "super"
    THEN IF c.level = "graph"
         THEN \* dispgraph.super(K)(...)
              Pending("graph", SuperMarker(fn.key, Unwrap(c.target)), c.dt)
         ELSE \* d(SuperMarker(K, val), ...)
              Pending("disp", SuperMarker(fn.key, val), AsDispatcher(c.dt.disp))
    ELSE IF fn.kind = "parent"
    THEN IF c.level = "graph"
         THEN \* dispgraph.parent(R)(...)
              Pending("graph", c.target, DispatchSuper(fn.reg, c.dt.disp))
         ELSE \* DispatchSuper(R, d)(val, ...)
              Pending("disp", val, DispatchSuper(fn.reg, c.dt.disp))
    ELSE IF fn.kind = "inner"
    THEN \* dispgraph.inner(...)
         inner(c)
    ELSE [active |-> FALSE]

Invocation(fn, c, val) ==
    [fn |-> fn, ctx |-> c.dt.disp, val |-> val, level |-> c.level,
     target |-> c.target, dt |-> c.dt]

\* the argument of the NotImplementedError
NotImplementedArg(c) ==
    IF c.level = "graph" THEN Unwrap(c.target)          \* self.marker
    ELSE _to_keys(c.dt, c.target)                       \* self._to_keys(val)

\* one call: Dispatcher.call, DispatchSuper.call or DispatchGraph.__call__,
\* up to the next call the handler makes
Invoke ==
    /\ cur.active
    /\ LET d == dispatch(cur.dt, cur.target) IN
       IF Len(trace) >= MaxDepth
       THEN /\ raised' = [type |-> "RecursionError"]
            /\ cur' = [active |-> FALSE]
            /\ UNCHANGED trace
       ELSE IF d.err
       THEN /\ raised' = [type |-> "ValueError"]
            /\ cur' = [active |-> FALSE]
            /\ UNCHANGED trace
       ELSE IF d.fn = NoFn
       THEN /\ raised' = [type |-> "NotImplementedError",
                          arg |-> NotImplementedArg(cur), call |-> cur]
            /\ cur' = [active |-> FALSE]
            /\ UNCHANGED trace
       ELSE /\ trace' = Append(trace, Invocation(d.fn, cur, PassedVal(cur)))
            /\ cur' = HandlerBody(d.fn, cur, PassedVal(cur))
            /\ UNCHANGED raised
    /\ UNCHANGED <<dvars, docvars>>

Values == {Plain(n) : n \in 0..MaxVal}

\* the targets a caller passes: a value, or SuperMarker(k, value)
Targets(kf) ==
    Values \cup {SuperMarker(k, v) : k \in KeysOfKeyfn(kf), v \in Values}

StartCall(level, target, dt) ==
    /\ Idle
    /\ cur' = Pending(level, target, dt)
    /\ UNCHANGED <<trace, raised>>
    /\ UNCHANGED <<dvars, docvars>>

\* the top-level call has returned or raised: its caller goes on
Return ==
    /\ ~cur.active
    /\ ~Idle
    /\ cur' = [active |-> FALSE]
    /\ trace' = <<>>
    /\ raised' = [type |-> "None"]
    /\ UNCHANGED <<dvars, docvars>>

-----------------------------------------------------------------------------
(* Scenario: plain dispatchers, called directly *)

\* Dispatcher(keyfn=kf) or Dispatcher(parents=[p, q, ...]); registries with
\* one parent are built by sub()
NewDispatcher ==
    /\ Idle
    /\ nreg < MaxReg
    /\ \/ \E kf \in KeyFns : Dispatcher__init__(kf, <<>>, 0)
       \/ \E ps \in ParentArgs :
              /\ Len(ps) > 1
              /\ NoDup(ps)
              /\ Dispatcher__init__(NoKeyfn, ps, 0)
    /\ UNCHANGED <<rvars, docvars>>

SubUpTo(maxreg) ==
    /\ Idle
    /\ nreg < maxreg
    /\ \E r \in Regs : sub(r)
    /\ UNCHANGED <<rvars, docvars>>

RegisterOf(kinds, maxops) ==
    /\ Idle
    /\ nops < maxops
    /\ \E r \in Regs : \E k \in KeysOfKeyfn(keyfn[r]), kind \in kinds :
           register(r, k, Handler(r, k, kind))
    /\ nops' = nops + 1
    /\ UNCHANGED <<nreg, _default, keyfn, dispatch_mro, parents, attempt,
                   defaults, sub_of>>
    /\ UNCHANGED <<rvars, docvars>>

SetDefaultUpTo(maxops) ==
    /\ Idle
    /\ nops < maxops
    /\ \E r \in Regs : set_default(r, DefaultFn(r))
    /\ nops' = nops + 1
    /\ UNCHANGED <<nreg, mapping, keyfn, dispatch_mro, parents, attempt,
                   defaults, sub_of>>
    /\ UNCHANGED <<rvars, docvars>>

Sub == SubUpTo(MaxReg)

\* handlers that return without calling the dispatcher again
Register == RegisterOf({"ret"}, MaxOps)

SetDefault == SetDefaultUpTo(MaxOps)

\* d(target)
CallDispatcher ==
    \E r \in Regs : \E t \in Targets(keyfn[r]) :
        StartCall("disp", t, AsDispatcher(r))

\* DispatchSuper(a, d)(target)
CallDispatchSuper ==
    \E r \in Regs : \E a \in Range(dispatch_mro[r]), t \in Targets(keyfn[r]) :
        /\ t.sm => t.key \in Range(_to_keys(AsDispatcher(r), t.val))
        /\ StartCall("disp", t, DispatchSuper(a, r))

-----------------------------------------------------------------------------
(* Scenario: graph dispatchers, called on descriptor graphs *)

\* GraphDispatcher(parents): Dispatcher.__init__(parents=parents)
NewGraphDispatcher ==
    /\ Idle
    /\ nreg < MaxRegGraph
    /\ \E ps \in ParentArgs :
           /\ Len(ps) # 1
           /\ NoDup(ps)
           /\ Dispatcher__init__(NoKeyfn, ps, 0)
    /\ UNCHANGED <<rvars, docvars>>

SubGraph == SubUpTo(MaxRegGraph)

\* handlers that return, call dispgraph.super(K)() or call dispgraph.parent(R)()
RegisterGraph == RegisterOf(Kinds, MaxOpsGraph)

SetDefaultGraph == SetDefaultUpTo(MaxOpsGraph)

\* raw_call: the node DynamicDispatchGraph(typegraph, self) is called
CallGraph ==
    \E r \in Regs : \E t \in Values : StartCall("graph", t, AsDispatcher(r))

-----------------------------------------------------------------------------
(* Scenario: operations made by make_dispatcher, called on wrapped         *)
(* descriptors.  Registry 1 is base_dispatcher.                            *)

\* @base_dispatcher.when(Wrapper): return dispgraph.inner(*args, **kwargs)
pass_through_wrapper == Handler(1, KWrapper, "inner")

\* base_dispatcher = GraphDispatcher() with pass_through_wrapper registered
InitBase ==
    /\ nreg = 1
    /\ mapping = <<[k \in Keys \cup MarkerKeys |->
                       IF k = KWrapper THEN pass_through_wrapper ELSE NoFn]>>
    /\ _default = <<NoFn>>
    /\ keyfn = <<NoKeyfn>>
    /\ dispatch_mro = <<(<<1>>)>>
    /\ parents = <<(<<>>)>>
    /\ attempt = [parents |-> <<>>, keyfn |-> NoKeyfn, ok |-> TRUE, made |-> 1]
    /\ sub_of = <<0>>
    /\ defaults = <<NoDefaults>>
    /\ nops = 0

\* make_dispatcher(parents): GraphDispatcher(parents = parents + (base_dispatcher,))
make_dispatcher ==
    /\ Idle
    /\ nreg < MaxRegWrap
    /\ \E ps \in ParentArgs :
           /\ Len(ps) < MaxParents
           /\ 1 \notin Range(ps)
           /\ Dispatcher__init__(NoKeyfn, ps \o <<1>>, 0)
    /\ UNCHANGED <<rvars, docvars>>

SubWrap == SubUpTo(MaxRegWrap)

\* @op.when(K) on an operation, for a descriptor class, Marker, Wrapper or a
\* Wrapper subclass; the handler of a descriptor returns or calls
\* dispgraph.super(K)(), the handler of a wrapper returns or calls
\* dispgraph.inner().  base_dispatcher keeps its one handler.
RegisterWrap ==
    /\ Idle
    /\ nops < MaxOpsWrap
    /\ \E r \in Regs \ {1} :
           \/ \E k \in ClsKeys \cup {KMarker}, kind \in {"ret", "super"} :
                  register(r, k, Handler(r, k, kind))
           \/ \E k \in WrapperKinds \cup {KWrapper}, kind \in {"ret", "inner"} :
                  register(r, k, Handler(r, k, kind))
    /\ nops' = nops + 1
    /\ UNCHANGED <<nreg, _default, keyfn, dispatch_mro, parents, attempt,
                   defaults, sub_of>>
    /\ UNCHANGED <<rvars, docvars>>

WrapStacks == UNION {[1..n -> WrapperKinds] : n \in 0..MaxWrap}

\* op(Foo(Bar(Int())), value): raw_call on the graph of the descriptor
CallWrapped ==
    \E r \in Regs \ {1} : \E ws \in WrapStacks, n \in 0..MaxVal :
        StartCall("graph", Wrapped(ws, n), AsDispatcher(r))

-----------------------------------------------------------------------------
(* document/document.py, document/docset.py: documents.  A Document object  *)
(* is the record [type, uid, loaded, value, kids]: value is an Int field     *)
(* and kids the documents its document-valued field refers to, in order (a   *)
(* List of documents as in FooHolder.foos; an Optional reference as in       *)
(* LinkedList.next is a list of at most one).                                 *)

DocType == "Document"
NoneValue == 0

Loaded(t, u, v, ks) == [type |-> t, uid |-> u, loaded |-> TRUE, value |-> v, kids |-> ks]

\* Document._create_unloaded(uid): only loaded and uid are set
_create_unloaded(t, u) ==
    [type |-> t, uid |-> u, loaded |-> FALSE, value |-> NoneValue, kids |-> <<>>]

\* Document.load(**attrs) on the object d, for attrs that extract_obj built
load(d, v, ks) == [d EXCEPT !.loaded = TRUE, !.value = v, !.kids = ks]

\* the key of a document in a DocSet
DocKey(d) == <<d.type, d.uid>>

\* input graphs: object i holds value i; its uid is i, but object 2 may have
\* the uid of object 1; object 1 lists up to MaxKids documents, the others
\* refer to at most one
UidsAt(i) == IF i = 2 THEN {1, 2} ELSE {i}
KidSeqs(n, k) == UNION {[1..m -> 1..n] : m \in 0..k}
DocsAt(n, i) ==
    {Loaded(DocType, u, i, ks) :
         u \in UidsAt(i), ks \in KidSeqs(n, IF i = 1 THEN MaxKids ELSE 1)}
    \cup {_create_unloaded(DocType, u) : u \in UidsAt(i)}
RECURSIVE GraphsOf(_, _)
GraphsOf(n, i) ==
    IF i = 0 THEN {<<>>}
    ELSE {Append(h, d) : h \in GraphsOf(n, i - 1), d \in DocsAt(n, i)}
Graphs(n) == GraphsOf(n, n)

\* mklist of the tests: a linked list of n nodes, closed or not
mklist(n, closed) ==
    [i \in 1..n |->
        Loaded(DocType, i, i,
               IF i < n THEN <<i + 1>> ELSE IF closed THEN <<1>> ELSE <<>>)]

InputHeaps(maxdocs, maxlist) ==
    UNION {Graphs(n) : n \in 1..maxdocs}
    \cup {mklist(n, c) : n \in (maxdocs + 1)..maxlist, c \in BOOLEAN}

\* no doc_storage keyword is given; a dict given is uid -> stored form
NoStore == [given |-> FALSE]
GivenStore(items) == [given |-> TRUE, items |-> items]

NoCall ==
    /\ doc_op = "none"
    /\ stack = <<>>
    /\ _tv_docs_processed = {}
    /\ in_docset = <<>>
    /\ doc_storage = NoStore
    /\ out = <<>>
    /\ enc = <<>>
    /\ accum = 0
    /\ outcome = "none"

InitDocs ==
    /\ heap \in InputHeaps(MaxDocs, MaxList)
    /\ nsrc = Len(heap)
    /\ visits = [d \in 1..Len(heap) |-> [uid |-> 0, value |-> 0]]
    /\ NoCall

InitNoDocs ==
    /\ heap = <<>>
    /\ nsrc = 0
    /\ visits = <<>>
    /\ NoCall

\* a handler frame: the document it was called on (0: the caller), the
\* document-valued children it iterates, the next one to do, the object a
\* clone is building and the results of the children so far
Frame(d, ks, new) == [doc |-> d, kids |-> ks, idx |-> 1, new |-> new, acc |-> <<>>]
Top == stack[Len(stack)]
\* the stack once the running handler's current child call is made
Advanced == [stack EXCEPT ![Len(stack)].idx = @ + 1]
\* ... and has returned r
Returned(st, r) == [st EXCEPT ![Len(st)].acc = Append(@, r)]
Encounter(d, r) == enc' = Append(enc, [src |-> d, res |-> r])

\* a variant that hands every call the object made for the first one, as
\* default_value(name, set()) would
DefaultShared ==
    /\ _tv_docs_processed' = _tv_docs_processed
    /\ in_docset' = in_docset

\* default_factory(name, factory): a call that is not given the keyword gets
\* a fresh factory() of its own: set() for _tv_docs_processed, DocSet() for
\* in_docset
default_factory ==
    /\ _tv_docs_processed' = {}
    /\ in_docset' = <<>>

\* a top-level call op(Document type, heap[root])
raw_call(op, root) ==
    /\ outcome = "none"
    /\ doc_op' = op
    /\ outcome' = "running"
    /\ stack' = <<Frame(0, <<root>>, 0)>>
    /\ doc_storage' \in IF op = "dictify" THEN {NoStore, GivenStore(<<>>)}
                        ELSE {NoStore}
    /\ default_factory
    /\ UNCHANGED <<heap, nsrc, out, enc, visits, accum>>
    /\ UNCHANGED <<dvars, rvars>>

Running(ops) == doc_op \in ops /\ outcome = "running"

Raise(e) ==
    /\ outcome' = e
    /\ UNCHANGED <<heap, stack, out, visits, accum>>

\* the handler on top of the stack has done all its children and returns r
\* to its caller (the result of the whole call, if that is the caller)
Finish(r) ==
    /\ stack' = IF Len(stack) = 1 THEN <<>>
                ELSE Returned(SubSeq(stack, 1, Len(stack) - 1), r)
    /\ outcome' = IF Len(stack) = 1 THEN "returned" ELSE outcome

\* entering the handlers of one more nested document
Enter(d, new) ==
    IF Len(stack) >= DocDepthLimit
    THEN Raise("RecursionError")
    ELSE /\ stack' = Append(Advanced, Frame(d, heap[d].kids, new))
         /\ outcome' = outcome

(* dictify.  The output is written as the sequence of its parts in order:   *)
(* <<"full", uid, value>> opens the dict of a document, its children follow *)
(* and <<"end">> closes it; <<"stub", uid>> is dict(uid=doc.uid).           *)

Full(d) == <<"full", heap[d].uid, heap[d].value>>
Stub(d) == <<"stub", heap[d].uid>>
End == <<"end">>

\* dictify_obj on a document: extract_obj(.., default_nones=True).  Reading
\* a field of an unloaded document raises UnloadedDocumentException inside
\* hasattr, which lets it through or takes it for a missing attribute
\* depending on the interpreter; a missing attribute is written as None.
dictify_obj(d) ==
    IF heap[d].loaded
    THEN /\ Enter(d, 0)
         /\ out' = IF Len(stack) >= DocDepthLimit THEN out ELSE Append(out, Full(d))
         /\ Encounter(d, "full")
         /\ UNCHANGED <<heap, visits, accum>>
    ELSE \/ Raise("UnloadedDocumentException") /\ Encounter(d, "raised")
         \/ /\ out' = out \o <<Full(d), End>>
            /\ stack' = Returned(Advanced, d)
            /\ Encounter(d, "full")
            /\ UNCHANGED <<heap, visits, accum, outcome>>

\* a variant that forgets which documents it has done
DictifyNoMark(d) ==
    IF d \in _tv_docs_processed
    THEN /\ out' = Append(out, Stub(d))
         /\ stack' = Returned(Advanced, d)
         /\ Encounter(d, "stub")
         /\ UNCHANGED <<heap, visits, accum, outcome, _tv_docs_processed>>
    ELSE /\ _tv_docs_processed' = _tv_docs_processed
         /\ dictify_obj(d)

dictify_document(d) ==
    IF d \in _tv_docs_processed
    THEN /\ out' = Append(out, Stub(d))
         /\ stack' = Returned(Advanced, d)
         /\ Encounter(d, "stub")
         /\ UNCHANGED <<heap, visits, accum, outcome, _tv_docs_processed>>
    ELSE /\ _tv_docs_processed' = _tv_docs_processed \cup {d}
         /\ dictify_obj(d)

StartDictify == \E root \in 1..nsrc : raw_call("dictify", root)

DictifyStep ==
    /\ Running({"dictify"})
    /\ UNCHANGED <<nsrc, doc_op, in_docset, doc_storage, dvars, rvars>>
    /\ IF Top.idx > Len(Top.kids)
       THEN /\ Finish(Top.doc)
            /\ out' = IF Top.doc = 0 THEN out ELSE Append(out, End)
            /\ UNCHANGED <<heap, enc, visits, accum, _tv_docs_processed>>
       ELSE dictify_document(Top.kids[Top.idx])

(* traverse and validate.  validate = traverse.sub(): for a document marker *)
(* both resolve to traverse_document, and validate's own handler for        *)
(* objects only checks the type and delegates to traverse's.                *)

Visit(d, fields) ==
    visits' = [visits EXCEPT ![d] =
                  [f \in DOMAIN @ |-> IF f \in fields THEN @[f] + 1 ELSE @[f]]]

\* a variant that forgets which documents it has done
TraverseNoMark(d) ==
    IF d \in _tv_docs_processed
    THEN /\ stack' = Returned(Advanced, d)
         /\ Encounter(d, "skip")
         /\ UNCHANGED <<heap, out, visits, accum, outcome, _tv_docs_processed>>
    ELSE /\ _tv_docs_processed' = _tv_docs_processed
         /\ Encounter(d, "done")
         /\ IF ~heap[d].loaded
            THEN \* superdisp.restrict(['uid']): only the uid leaf
                 /\ Visit(d, {"uid"})
                 /\ stack' = Returned(Advanced, d)
                 /\ UNCHANGED <<heap, out, accum, outcome>>
            ELSE /\ Enter(d, 0)
                 /\ IF Len(stack) >= DocDepthLimit
                    THEN TRUE
                    ELSE /\ Visit(d, {"uid", "value"})
                         /\ accum' = accum + heap[d].value
                 /\ UNCHANGED <<heap, out>>

traverse_document(d) ==
    IF d \in _tv_docs_processed
    THEN /\ stack' = Returned(Advanced, d)
         /\ Encounter(d, "skip")
         /\ UNCHANGED <<heap, out, visits, accum, outcome, _tv_docs_processed>>
    ELSE /\ _tv_docs_processed' = _tv_docs_processed \cup {d}
         /\ Encounter(d, "done")
         /\ IF ~heap[d].loaded
            THEN \* superdisp.restrict(['uid']): only the uid leaf
                 /\ Visit(d, {"uid"})
                 /\ stack' = Returned(Advanced, d)
                 /\ UNCHANGED <<heap, out, accum, outcome>>
            ELSE /\ Enter(d, 0)
                 /\ IF Len(stack) >= DocDepthLimit
                    THEN TRUE
                    ELSE /\ Visit(d, {"uid", "value"})
                         /\ accum' = accum + heap[d].value
                 /\ UNCHANGED <<heap, out>>

StartTraverse ==
    \E op \in {"traverse", "validate"}, root \in 1..nsrc : raw_call(op, root)

TraverseStep ==
    /\ Running({"traverse", "validate"})
    /\ UNCHANGED <<nsrc, doc_op, in_docset, doc_storage, dvars, rvars>>
    /\ IF Top.idx > Len(Top.kids)
       THEN /\ Finish(Top.doc)
            /\ UNCHANGED <<heap, out, enc, visits, accum, _tv_docs_processed>>
       ELSE traverse_document(Top.kids[Top.idx])

(* graphize.  The call's cache kwargs['_tv_docs_cache'] maps the documents   *)
(* done to their nodes; _tv_docs_processed holds its keys.                  *)

\* graphize_document: the cached node, or a new node in the cache that is
\* filled from the uid alone (unloaded) or from all fields
graphize_document(d) ==
    IF d \in _tv_docs_processed
    THEN /\ stack' = Returned(Advanced, d)
         /\ Encounter(d, "cached")
         /\ UNCHANGED <<heap, out, visits, accum, outcome, _tv_docs_processed>>
    ELSE /\ _tv_docs_processed' = _tv_docs_processed \cup {d}
         /\ Encounter(d, "node")
         /\ UNCHANGED <<heap, out, visits, accum>>
         /\ IF ~heap[d].loaded
            THEN \* superdisp.restrict(['uid'])
                 /\ stack' = Returned(Advanced, d)
                 /\ outcome' = outcome
            ELSE Enter(d, 0)

StartGraphize == \E root \in 1..nsrc : raw_call("graphize", root)

GraphizeStep ==
    /\ Running({"graphize"})
    /\ UNCHANGED <<nsrc, doc_op, in_docset, doc_storage, dvars, rvars>>
    /\ IF Top.idx > Len(Top.kids)
       THEN /\ Finish(Top.doc)
            /\ UNCHANGED <<heap, out, enc, visits, accum, _tv_docs_processed>>
       ELSE graphize_document(Top.kids[Top.idx])

\* the top-level call has returned and the caller makes another call on the
\* same documents, with a new accumulator; trace keeps what the earlier calls
\* did.  Nothing is done to the objects the earlier call worked with.
CallAgain ==
    /\ outcome = "returned"
    /\ Len(trace) < MaxCalls - 1
    /\ trace' = Append(trace, [op |-> doc_op, enc |-> enc, out |-> out])
    /\ doc_op' = "none"
    /\ enc' = <<>>
    /\ out' = <<>>
    /\ outcome' = "none"
    /\ accum' = 0
    /\ visits' = [d \in DOMAIN visits |-> [uid |-> 0, value |-> 0]]
    /\ UNCHANGED <<heap, nsrc, stack, _tv_docs_processed, in_docset, doc_storage>>
    /\ UNCHANGED <<dvars, cur, raised>>

(* clone *)

\* DocSet.create(type, uid)
create(t, u) ==
    IF <<t, u>> \in DOMAIN in_docset
    THEN Raise("ValueError") /\ UNCHANGED <<in_docset, doc_storage>>
    ELSE /\ heap' = Append(heap, _create_unloaded(t, u))
         /\ UNCHANGED doc_storage
         /\ in_docset' = (<<t, u>> :> (Len(heap) + 1)) @@ in_docset

\* the call is clone(T, x, new_uids=True)
new_uids == doc_op = "clone_new_uids"

\* make_uid(): unicode(uuid4()), a uid that no document has yet
make_uid ==
    1 + CHOOSE m \in {heap[i].uid : i \in 1..Len(heap)} :
            \A i \in 1..Len(heap) : heap[i].uid <= m

\* a variant that never looks a document up in the DocSet
CloneNoLookup(d) ==
    /\ Encounter(d, Len(heap) + 1)
    /\ UNCHANGED <<out, visits, accum, _tv_docs_processed>>
    /\ IF Len(stack) >= DocDepthLimit
       THEN Raise("RecursionError") /\ UNCHANGED <<in_docset, doc_storage>>
       ELSE /\ create(heap[d].type, heap[d].uid)
            /\ IF DocKey(heap[d]) \in DOMAIN in_docset
               THEN TRUE
               ELSE /\ outcome' = outcome
                    /\ stack' = IF heap[d].loaded
                                THEN Append(Advanced, Frame(d, heap[d].kids, Len(heap) + 1))
                                ELSE Returned(Advanced, Len(heap) + 1)

\* uid = make_uid() if new_uids else doc.uid; key = (type(doc), uid)
clone_document(d) ==
    \E uid \in {IF new_uids THEN make_uid ELSE heap[d].uid} :
    \E key \in {<<heap[d].type, uid>>} :
    /\ UNCHANGED <<out, visits, accum, _tv_docs_processed>>
    /\ IF key \in DOMAIN in_docset
       THEN /\ stack' = Returned(Advanced, in_docset[key])
            /\ Encounter(d, in_docset[key])
            /\ UNCHANGED <<heap, in_docset, doc_storage, outcome>>
       ELSE /\ Encounter(d, Len(heap) + 1)
            /\ IF Len(stack) >= DocDepthLimit
               THEN Raise("RecursionError") /\ UNCHANGED <<in_docset, doc_storage>>
               ELSE /\ create(heap[d].type, uid)
                    /\ outcome' = outcome
                    /\ stack' = IF heap[d].loaded
                                THEN Append(Advanced, Frame(d, heap[d].kids, Len(heap) + 1))
                                ELSE Returned(Advanced, Len(heap) + 1)

StartClone == \E root \in 1..nsrc : raw_call("clone", root)

\* clone(T, heap[root], new_uids=True)
StartCloneNewUids == \E root \in 1..nsrc : raw_call("clone_new_uids", root)

\* the children of Top.doc are cloned: new_doc.load(**attrs), return new_doc
CloneStep ==
    /\ Running({"clone", "clone_new_uids"})
    /\ UNCHANGED <<nsrc, doc_op, dvars, rvars>>
    /\ IF Top.idx > Len(Top.kids)
       THEN /\ UNCHANGED <<in_docset, doc_storage, enc, visits, accum, _tv_docs_processed>>
            /\ IF Top.doc = 0
               THEN /\ Finish(0)
                    /\ out' = Top.acc
                    /\ UNCHANGED heap
               ELSE IF heap[Top.new].loaded
               THEN Raise("DoubleLoadException")
               ELSE /\ heap' = [heap EXCEPT ![Top.new] =
                                   load(@, heap[Top.doc].value, Top.acc)]
                    /\ Finish(Top.new)
                    /\ out' = out
       ELSE clone_document(Top.kids[Top.idx])

(* mutate.  mutate = clone.sub(): a document marker resolves to             *)
(* mutate_document, whose super call reaches mutate_obj; lists of documents *)
(* go through clone's list handler, which returns the list of the results.  *)
(* The handler of the test appends '_' to a string; on the Int-coded value   *)
(* field appending n underscores is adding n * Underscore.                   *)

Underscore == MaxDocs + MaxList + 1
expand_string(v) == v + Underscore

\* mutate_obj, first half: _as_dict reads every attribute of the object, then
\* apply_schema calls the handler of each field on what was read.  On an
\* unloaded document the read of a declared field raises
\* UnloadedDocumentException out of hasattr, or hasattr answers False and
\* apply_schema's value[key] raises KeyError, depending on the interpreter.
mutate_obj(d) ==
    IF heap[d].loaded
    THEN /\ Enter(d, expand_string(heap[d].value))
         /\ UNCHANGED <<heap, out, visits, accum>>
    ELSE \/ Raise("UnloadedDocumentException")
         \/ Raise("KeyError")

\* a variant that forgets which documents it has done
MutateNoMark(d) ==
    /\ UNCHANGED <<in_docset, doc_storage>>
    /\ IF d \in _tv_docs_processed
       THEN /\ stack' = Returned(Advanced, d)
            /\ Encounter(d, "skip")
            /\ UNCHANGED <<heap, out, visits, accum, outcome, _tv_docs_processed>>
       ELSE /\ _tv_docs_processed' = _tv_docs_processed
            /\ Encounter(d, "done")
            /\ mutate_obj(d)

mutate_document(d) ==
    /\ UNCHANGED <<in_docset, doc_storage>>
    /\ IF d \in _tv_docs_processed
       THEN /\ stack' = Returned(Advanced, d)
            /\ Encounter(d, "skip")
            /\ UNCHANGED <<heap, out, visits, accum, outcome, _tv_docs_processed>>
       ELSE /\ _tv_docs_processed' = _tv_docs_processed \cup {d}
            /\ Encounter(d, "done")
            /\ mutate_obj(d)

StartMutate == \E root \in 1..nsrc : raw_call("mutate", root)

\* the fields of Top.doc are done: mutate_obj's setattr of every new value,
\* return value
MutateStep ==
    /\ Running({"mutate"})
    /\ UNCHANGED <<nsrc, doc_op, dvars, rvars>>
    /\ IF Top.idx > Len(Top.kids)
       THEN /\ UNCHANGED <<in_docset, doc_storage, enc, visits, accum, _tv_docs_processed>>
            /\ IF Top.doc = 0
               THEN /\ Finish(0)
                    /\ out' = Top.acc
                    /\ UNCHANGED heap
               ELSE /\ heap' = [heap EXCEPT ![Top.doc].value = Top.new,
                                            ![Top.doc].kids = Top.acc]
                    /\ Finish(Top.doc)
                    /\ out' = out
       ELSE mutate_document(Top.kids[Top.idx])

(* document/docset.py: a DocSet, and documents made and loaded by hand.     *)
(* in_docset is the DocSet's document_map, heap the Document objects that   *)
(* exist; doc_op, enc, out and outcome record the last call: its name, its  *)
(* arguments, what it returned (0: None) and "returned" or the exception.   *)

NoteType == "Note"
DocTypes == {DocType, NoteType}
Uids == 1..MaxUid
\* the field value of an object whose attribute was never set
NoAttr == -1
\* the field values 'hi' and 'ho' of the tests
Hi == 1
Ho == 2
FieldValues == {Hi, Ho}

\* Document.__getattr__ for the declared field value: the value, or the
\* exception raised
__getattr__(d) ==
    IF ~d.loaded THEN "UnloadedDocumentException"
    ELSE IF d.value = NoAttr THEN "AttributeError"
    ELSE d.value

\* serialized documents: dict(uid=u) alone, or with the other fields; the
\* documents referred to are serialized inside, one level deep
RawStub(u) == [uid |-> u, full |-> FALSE, value |-> NoneValue, kids |-> <<>>]
RawFull(u, v, ks) == [uid |-> u, full |-> TRUE, value |-> v, kids |-> ks]
LeafRaws == {RawStub(u) : u \in Uids} \cup {RawFull(u, v, <<>>) : u \in Uids, v \in FieldValues}
Raws == LeafRaws \cup {RawFull(u, v, <<k>>) : u \in Uids, v \in FieldValues, k \in LeafRaws}

Called(name, args, result, exc) ==
    /\ outcome = "none"
    /\ doc_op' = name
    /\ enc' = <<[src |-> args, res |-> result]>>
    /\ out' = <<result>>
    /\ outcome' = exc
    /\ UNCHANGED <<nsrc, stack, _tv_docs_processed, visits, accum, dvars, rvars>>

\* Foo(uid=u, value=v): Document.__init__
Document__init__ ==
    /\ outcome = "none"
    /\ Len(heap) < MaxObjs
    /\ \E t \in DocTypes, u \in Uids, v \in FieldValues :
        /\ heap' = Append(heap, Loaded(t, u, v, <<>>))
        /\ UNCHANGED <<in_docset, doc_storage>>
        /\ Called("Document", <<t, u, v>>, Len(heap) + 1, "returned")

\* Foo._create_unloaded(u)
CreateUnloaded ==
    /\ outcome = "none"
    /\ Len(heap) < MaxObjs
    /\ \E t \in DocTypes, u \in Uids :
        /\ heap' = Append(heap, _create_unloaded(t, u))
        /\ UNCHANGED <<in_docset, doc_storage>>
        /\ Called("_create_unloaded", <<t, u>>, Len(heap) + 1, "returned")

\* a variant of Document.load that loads whatever the flag says
LoadAgain(d, v, ks) ==
    /\ heap' = [heap EXCEPT ![d] = load(@, v, ks)]
    /\ Called("Document.load", <<d, v>>, d, "returned")

\* doc.load(value=v, ...) on the object d
Document_load(d, v, ks) ==
    IF heap[d].loaded
    THEN /\ UNCHANGED heap
         /\ Called("Document.load", <<d, v>>, 0, "DoubleLoadException")
    ELSE /\ heap' = [heap EXCEPT ![d] = load(@, v, ks)]
         /\ Called("Document.load", <<d, v>>, d, "returned")

DocumentLoad ==
    /\ outcome = "none"
    /\ \E d \in 1..Len(heap), v \in FieldValues :
           Document_load(d, v, <<>>) /\ UNCHANGED <<in_docset, doc_storage>>

\* doc.load(value=v, extra_field=12) on the object d: _load sets loaded, then
\* raises TypeError for the unexpected name before any field is set
Document_load_extra(d, v) ==
    IF heap[d].loaded
    THEN /\ UNCHANGED heap
         /\ Called("Document.load", <<d, v, "extra_field">>, 0, "DoubleLoadException")
    ELSE /\ heap' = [heap EXCEPT ![d].loaded = TRUE, ![d].value = NoAttr]
         /\ Called("Document.load", <<d, v, "extra_field">>, 0, "TypeError")

DocumentLoadExtra ==
    /\ outcome = "none"
    /\ \E d \in 1..Len(heap), v \in FieldValues :
           Document_load_extra(d, v) /\ UNCHANGED <<in_docset, doc_storage>>

\* a variant of DocSet.add that overwrites
AddOverwrite(d) ==
    /\ UNCHANGED doc_storage
    /\ in_docset' = [k \in DOMAIN in_docset \cup {DocKey(heap[d])} |->
                        IF k = DocKey(heap[d]) THEN d ELSE in_docset[k]]
    /\ UNCHANGED heap
    /\ Called("add", <<d>>, 0, "returned")

\* DocSet.add(doc)
add(d) ==
    IF DocKey(heap[d]) \in DOMAIN in_docset
    THEN /\ UNCHANGED <<heap, in_docset, doc_storage>>
         /\ Called("add", <<d>>, 0, "ValueError")
    ELSE /\ in_docset' = (DocKey(heap[d]) :> d) @@ in_docset
         /\ UNCHANGED <<heap, doc_storage>>
         /\ Called("add", <<d>>, 0, "returned")

DocSetAdd == outcome = "none" /\ \E d \in 1..Len(heap) : add(d)

\* DocSet.get(type, uid)
get(t, u) ==
    /\ UNCHANGED <<heap, in_docset, doc_storage>>
    /\ Called("get", <<t, u>>,
              IF <<t, u>> \in DOMAIN in_docset THEN in_docset[<<t, u>>] ELSE 0,
              "returned")

DocSetGet == outcome = "none" /\ \E t \in DocTypes, u \in Uids : get(t, u)

\* DocSet.create(type, uid) called by hand
DocSetCreate ==
    \E t \in DocTypes, u \in Uids :
        /\ outcome = "none"
        /\ <<t, u>> \notin DOMAIN in_docset => Len(heap) < MaxObjs
        /\ create(t, u)
        /\ doc_op' = "create"
        /\ enc' = <<[src |-> <<t, u>>, res |-> 0]>>
        /\ UNCHANGED <<nsrc, _tv_docs_processed, dvars, rvars>>
        /\ IF <<t, u>> \in DOMAIN in_docset
           THEN UNCHANGED <<in_docset, doc_storage>>
           ELSE /\ outcome' = "returned"
                /\ out' = <<Len(heap) + 1>>
                /\ UNCHANGED <<stack, visits, accum>>

\* a variant of get_or_create that registers a new document every time
GetOrCreateFresh(t, u, st) ==
    [st EXCEPT !.heap = Append(@, _create_unloaded(t, u)),
               !.map = [k \in DOMAIN st.map \cup {<<t, u>>} |->
                           IF k = <<t, u>> THEN Len(st.heap) + 1 ELSE st.map[k]]]

\* DocSet.get_or_create(type, uid) on the pair st = [heap, map]:
\* document_map.setdefault(key, type._create_unloaded(uid))
get_or_create(t, u, st) ==
    IF <<t, u>> \in DOMAIN st.map
    THEN st
    ELSE [st EXCEPT !.heap = Append(@, _create_unloaded(t, u)),
                    !.map = (<<t, u>> :> (Len(st.heap) + 1)) @@ @]

DocSetGetOrCreate ==
    /\ outcome = "none"
    /\ \E t \in DocTypes, u \in Uids :
        \E st \in {get_or_create(t, u, [heap |-> heap, map |-> in_docset])} :
            /\ Len(st.heap) <= MaxObjs
            /\ heap' = st.heap
            /\ UNCHANGED doc_storage
            /\ in_docset' = st.map
            /\ Called("get_or_create", <<t, u>>, st.map[<<t, u>>], "returned")

\* udf_document with in_docset given, error_mode IGNORE, on a serialized
\* document: st = [heap, map, exc, res] is threaded through the nested calls
\* that apply_schema makes for the document-valued field
RECURSIVE udf_document(_, _, _)
RECURSIVE udf_children(_, _, _, _)
udf_document(t, raw, st) ==
    LET st1 == get_or_create(t, raw.uid, st)
        doc == st1.map[<<t, raw.uid>>]
    IN  IF ~raw.full
        THEN [st1 EXCEPT !.res = doc]
        ELSE LET st2 == udf_children(t, raw.kids, st1, <<>>)
             IN  IF st2.exc # "returned" THEN st2
                 ELSE IF st2.heap[doc].loaded
                 THEN [st2 EXCEPT !.exc = "DoubleLoadException", !.res = 0]
                 ELSE [st2 EXCEPT !.heap[doc] = load(@, raw.value, st2.res),
                                  !.res = doc]

\* apply_schema's loop over the serialized documents of a field
udf_children(t, raws, st, acc) ==
    IF raws = <<>> THEN [st EXCEPT !.res = acc]
    ELSE LET st1 == udf_document(t, Head(raws), st)
         IN  IF st1.exc # "returned" THEN st1
             ELSE udf_children(t, Tail(raws), st1, Append(acc, st1.res))

\* a variant of DocSet.load without the check for a loaded document
LoadUnchecked(t, raw, allow) ==
    \E st \in {udf_document(t, raw, [heap |-> heap, map |-> in_docset,
                                         exc |-> "returned", res |-> 0])} :
        /\ Len(st.heap) <= MaxObjs
        /\ heap' = st.heap
        /\ UNCHANGED doc_storage
        /\ in_docset' = st.map
        /\ Called("load", <<t, raw, allow>>, st.res, st.exc)

\* DocSet.load(type, data, allow_double_load)
DocSet_load(t, raw, allow) ==
    LET old == IF <<t, raw.uid>> \in DOMAIN in_docset
               THEN in_docset[<<t, raw.uid>>] ELSE 0
    IN  IF old # 0 /\ heap[old].loaded
        THEN /\ UNCHANGED <<heap, in_docset, doc_storage>>
             /\ IF allow
                THEN Called("load", <<t, raw, allow>>, old, "returned")
                ELSE Called("load", <<t, raw, allow>>, 0, "DoubleLoadException")
        ELSE \E st \in {udf_document(t, raw, [heap |-> heap, map |-> in_docset,
                                                  exc |-> "returned", res |-> 0])} :
                 /\ Len(st.heap) <= MaxObjs
                 /\ heap' = st.heap
                 /\ UNCHANGED doc_storage
                 /\ in_docset' = st.map
                 /\ Called("load", <<t, raw, allow>>, st.res, st.exc)

DocSetLoad ==
    /\ outcome = "none"
    /\ \E t \in DocTypes, raw \in Raws, allow \in BOOLEAN : DocSet_load(t, raw, allow)

\* the caller has the result or the exception of the call and goes on to its
\* next statement
NextStatement ==
    /\ outcome # "none"
    /\ doc_op' = "none"
    /\ enc' = <<>>
    /\ out' = <<>>
    /\ outcome' = "none"
    /\ UNCHANGED <<heap, nsrc, stack, _tv_docs_processed, in_docset, doc_storage, visits, accum>>
    /\ UNCHANGED <<dvars, rvars>>

-----------------------------------------------------------------------------
(* schema.py, typed_leaf.py, polymorph.py, base.py: recursive operations   *)
(* over a schema.  A descriptor graph is an Int() leaf, a Polymorph that   *)
(* knows the type int, or a Schema whose children are named 1, 2, ...;     *)
(* a value is an int, a str or a dict.  A call gives the record            *)
(* [exc, err, result, visits]: the exception it raised ("None": it         *)
(* returned), the Invalid tree if that is what it raised, what it          *)
(* returned, and the calls made on children, in order.  Here trace is the  *)
(* calls made on the graph's nodes, the top-level one first.              *)

IGNORE == 0
CHECK == 1
CHECK_ALL == 2
ErrorModes == {IGNORE, CHECK, CHECK_ALL}

FieldNames == 1..MaxFields

IntLeaf == [kind |-> "Int"]
StrLeaf == [kind |-> "String"]
\* ObjectMarker(target_cls).of(...), SchemaMapping(extra_field_policy).of(...)
ObjectOf(cls, children) == [kind |-> "Object", target_cls |-> cls, edges |-> children]
MappingOf(policy, children) ==
    [kind |-> "Mapping", extra_field_policy |-> policy, edges |-> children]
PolyNode == [kind |-> "Polymorph"]
SchemaOf(children) == [kind |-> "Schema", edges |-> children]

IntVal == [kind |-> "int"]
StrVal == [kind |-> "str"]
\* the int n, the string s, an instance of cls with the attributes attrs
IntOf(n) == [kind |-> "int", v |-> n]
StrOf(s) == [kind |-> "str", v |-> s]
Instance(cls, attrs) == [kind |-> "object", cls |-> cls, items |-> attrs]
NoneVal == [kind |-> "None"]
Dict(items) == [kind |-> "dict", items |-> items]
Pair(name, v) == [kind |-> "tuple", name |-> name, value |-> v]

\* Invalid: own_errors (their err_ids) and sub_errors (key -> Invalid)
NoInvalid == [own |-> <<>>, sub |-> <<>>]
Invalid(err_id) == [own |-> <<err_id>>, sub |-> <<>>]

\* ErrorAggregator: an error raised inside checking_sub(key) is kept under key
sub_error(agg, key, err) == [agg EXCEPT !.sub = (key :> err) @@ @]
\* an error raised inside checking() is kept among the aggregator's own
own_error(agg, err) == [agg EXCEPT !.own = @ \o err.own, !.sub = err.sub @@ @]
has_errors(agg) == agg # NoInvalid

Returns(result, seen) ==
    [exc |-> "None", err |-> NoInvalid, result |-> result, visits |-> seen]
Raises(exc, err, seen) ==
    [exc |-> exc, err |-> err, result |-> NoneVal, visits |-> seen]

\* traverse and validate use apply_schema(..., default_nones=False)
default_nones(op) == op \notin {"traverse", "validate"}

\* TypedLeaf.types: Int is numbers.Integral, String is basestring
types(g) == IF g.kind = "String" THEN "str" ELSE "int"

\* @traverse.when(Marker), @validate.when(TypedLeaf), @clone.when(Leaf)
leaf(op, g, v, error_mode) ==
    IF op = "traverse" THEN Returns(NoneVal, <<>>)
    ELSE IF op = "validate"
    THEN IF error_mode = IGNORE THEN Returns(NoneVal, <<>>)
         ELSE IF v.kind # types(g) THEN Raises("Invalid", Invalid("type_error"), <<>>)
         ELSE Returns(NoneVal, <<>>)
    ELSE Returns(v, <<>>)

\* get(key) of the IGNORE branch: value.get(key, None) or value[key]
schema_get(v, key, dn) ==
    IF v.kind = "dict"
    THEN IF key \in DOMAIN v.items THEN Returns(v.items[key], <<>>)
         ELSE IF dn THEN Returns(NoneVal, <<>>)
         ELSE Raises("KeyError", NoInvalid, <<>>)
    ELSE IF dn THEN Raises("AttributeError", NoInvalid, <<>>)
    ELSE Raises("TypeError", NoInvalid, <<>>)

Visit1(path, key, v) == [path |-> Append(path, key), val |-> v]

RECURSIVE call(_, _, _, _, _)
RECURSIVE IgnoreLoop(_, _, _, _, _, _, _)
RECURSIVE CheckLoop(_, _, _, _, _, _, _)

\* the IGNORE branch of apply_schema, from child i on; acc is the result and
\* the visits so far
IgnoreLoop(op, g, v, path, i, result, sofar) ==
    IF i > Len(g.edges) THEN Returns(Dict(result), sofar)
    ELSE LET got == schema_get(v, i, default_nones(op)) IN
         IF got.exc # "None" THEN Raises(got.exc, NoInvalid, sofar)
         ELSE LET r == call(op, g.edges[i], got.result, IGNORE, Append(path, i))
                  seen == Append(sofar, Visit1(path, i, got.result)) \o r.visits
              IN  IF r.exc # "None" THEN Raises(r.exc, r.err, seen)
                  ELSE IgnoreLoop(op, g, v, path, i + 1,
                                  (i :> r.result) @@ result, seen)

\* a variant that goes on to the next child after a failure in CHECK mode
CheckLoopNoAutoraise(op, g, v, error_mode, path, i, acc) ==
    IF i > Len(g.edges)
    THEN IF has_errors(acc.agg) THEN Raises("Invalid", acc.agg, acc.visits)
         ELSE Returns(Dict(acc.result), acc.visits)
    ELSE IF i \notin DOMAIN v.items /\ ~default_nones(op)
    THEN CheckLoop(op, g, v, error_mode, path, i + 1,
                   [acc EXCEPT !.agg = sub_error(@, i, Invalid("missing_attr"))])
    ELSE LET val == IF i \in DOMAIN v.items THEN v.items[i] ELSE NoneVal
             r == call(op, g.edges[i], val, error_mode, Append(path, i))
             seen == Append(acc.visits, Visit1(path, i, val)) \o r.visits
         IN  IF r.exc = "None"
             THEN CheckLoop(op, g, v, error_mode, path, i + 1,
                            [acc EXCEPT !.result = (i :> r.result) @@ @,
                                        !.visits = seen])
             ELSE IF r.exc # "Invalid" THEN Raises(r.exc, r.err, seen)
             ELSE CheckLoop(op, g, v, error_mode, path, i + 1,
                            [acc EXCEPT !.agg = sub_error(@, i, r.err),
                                        !.visits = seen])

\* the checking branch of apply_schema, from child i on: each child runs
\* inside agg.checking_sub(key); with autoraise (CHECK) the first error is
\* raised at once, else agg.raise_if_any() runs after the last child
CheckLoop(op, g, v, error_mode, path, i, acc) ==
    IF i > Len(g.edges)
    THEN IF has_errors(acc.agg) THEN Raises("Invalid", acc.agg, acc.visits)
         ELSE Returns(Dict(acc.result), acc.visits)
    ELSE IF i \notin DOMAIN v.items /\ ~default_nones(op)
    THEN LET agg == sub_error(acc.agg, i, Invalid("missing_attr")) IN
         IF error_mode = CHECK THEN Raises("Invalid", agg, acc.visits)
         ELSE CheckLoop(op, g, v, error_mode, path, i + 1, [acc EXCEPT !.agg = agg])
    ELSE LET val == IF i \in DOMAIN v.items THEN v.items[i] ELSE NoneVal
             r == call(op, g.edges[i], val, error_mode, Append(path, i))
             seen == Append(acc.visits, Visit1(path, i, val)) \o r.visits
         IN  IF r.exc = "None"
             THEN CheckLoop(op, g, v, error_mode, path, i + 1,
                            [acc EXCEPT !.result = (i :> r.result) @@ @,
                                        !.visits = seen])
             ELSE IF r.exc # "Invalid" THEN Raises(r.exc, r.err, seen)
             ELSE LET agg == sub_error(acc.agg, i, r.err) IN
                  IF error_mode = CHECK THEN Raises("Invalid", agg, seen)
                  ELSE CheckLoop(op, g, v, error_mode, path, i + 1,
                                 [acc EXCEPT !.agg = agg, !.visits = seen])

\* a variant whose IGNORE branch skips a child it cannot get
ApplySchemaLenient(op, g, v, error_mode, path) ==
    IF error_mode = IGNORE
    THEN IF v.kind # "dict" THEN Returns(v, <<>>)
         ELSE IgnoreLoop(op, SchemaOf(g.edges), Dict([k \in FieldNames |->
                  IF k \in DOMAIN v.items THEN v.items[k] ELSE NoneVal]),
                  path, 1, <<>>, <<>>)
    ELSE IF v.kind # "dict"
    THEN Raises("Invalid", own_error(NoInvalid, Invalid("type_error")), <<>>)
    ELSE CheckLoop(op, g, v, error_mode, path, 1,
                   [result |-> <<>>, agg |-> NoInvalid, visits |-> <<>>])

apply_schema(op, g, v, error_mode, path) ==
    IF error_mode = IGNORE
    THEN IgnoreLoop(op, g, v, path, 1, <<>>, <<>>)
    ELSE IF v.kind # "dict"
    THEN \* raise Invalid("type_error", msg, fatal=True) inside agg.checking()
         Raises("Invalid", own_error(NoInvalid, Invalid("type_error")), <<>>)
    ELSE CheckLoop(op, g, v, error_mode, path, 1,
                   [result |-> <<>>, agg |-> NoInvalid, visits |-> <<>>])

\* value.update(apply_schema(dispgraph, value, kw)); return value
mutate_schema(g, v, error_mode, path) ==
    IF error_mode # IGNORE /\ v.kind # "dict"
    THEN Raises("Invalid", Invalid("type_error"), <<>>)
    ELSE LET r == apply_schema("mutate", g, v, error_mode, path) IN
         IF r.exc # "None" THEN r
         ELSE IF v.kind # "dict" THEN Raises("AttributeError", NoInvalid, r.visits)
         ELSE Returns(Dict(r.result.items @@ v.items), r.visits)

(* object_marker.py: the handlers for ObjectMarker.  The attributes of an  *)
(* instance and the keys of a dict are named 1, 2, ... like the children  *)
(* of the descriptor; a larger name is one the descriptor does not have.  *)

\* keys that the descriptor does not name
extra_keys(g, value) == DOMAIN value.items \ (1..Len(g.edges))

\* the attributes the descriptor names, as a dict; hasattr fails for
\* everything that is not an instance carrying the attribute
_as_dict(g, value, dn) ==
    LET attrs == IF value.kind = "object" THEN value.items ELSE <<>>
        keys == {k \in 1..Len(g.edges) : dn \/ k \in DOMAIN attrs}
    IN  Dict([k \in keys |-> IF k \in DOMAIN attrs THEN attrs[k] ELSE NoneVal])

\* dictify_obj and traverse_obj: default_nones is True and False
extract_obj(op, g, obj, error_mode, path) ==
    apply_schema(op, g, _as_dict(g, obj, default_nones(op)), error_mode, path)

\* ObjectMarker.construct without a constructor: create_instance
construct(g, object_kwargs) == Instance(g.target_cls, object_kwargs)

undictify_obj(g, value, error_mode, path) ==
    LET r == apply_schema("undictify", g, value, error_mode, path) IN
    IF r.exc # "None" THEN r
    ELSE IF error_mode # IGNORE /\ extra_keys(g, value) # {}
    THEN Raises("Invalid", Invalid("unexpected_fields"), r.visits)
    ELSE Returns(construct(g, r.result.items), r.visits)

isinstance(value, cls) == value.kind = "object" /\ value.cls = cls

\* validate_obj: the type check, then traverse's handler for objects
validate_obj(g, value, error_mode, path) ==
    IF error_mode # IGNORE /\ ~isinstance(value, g.target_cls)
    THEN Raises("Invalid", Invalid("type_error"), <<>>)
    ELSE LET r == extract_obj("validate", g, value, error_mode, path) IN
         IF r.exc = "None" THEN Returns(NoneVal, r.visits) ELSE r

object_marker(op, g, v, error_mode, path) ==
    IF op = "undictify" THEN undictify_obj(g, v, error_mode, path)
    ELSE IF op = "validate" THEN validate_obj(g, v, error_mode, path)
    ELSE LET r == extract_obj(op, g, v, error_mode, path) IN
         IF r.exc = "None" /\ op = "traverse" THEN Returns(NoneVal, r.visits)
         ELSE r

(* mapping.py: the handlers for SchemaMapping.  Each runs the Schema       *)
(* handler inside error_agg.checking(), which keeps an Invalid it raises,  *)
(* and ends with error_agg.raise_if_any().                                 *)

\* the items of value under the keys the descriptor does not name
Extras(g, value) == [k \in extra_keys(g, value) |-> value.items[k]]

\* a variant that never carries the extra keys over
DictifyMappingDiscard(g, value, error_mode, path) ==
    apply_schema("dictify", g, value, error_mode, path)

dictify_mapping(g, value, error_mode, path) ==
    LET r == apply_schema("dictify", g, value, error_mode, path) IN
    IF r.exc # "None" THEN r
    ELSE IF g.extra_field_policy = "save"
    THEN Returns(Dict(r.result.items @@ Extras(g, value)), r.visits)
    ELSE r

undictify_mapping(g, value, error_mode, path) ==
    LET r == apply_schema("undictify", g, value, error_mode, path) IN
    IF r.exc \notin {"None", "Invalid"} THEN r
    ELSE IF value.kind # "dict" THEN Raises("AttributeError", NoInvalid, r.visits)
    ELSE LET kept == IF r.exc = "Invalid" THEN own_error(NoInvalid, r.err)
                     ELSE NoInvalid
             agg == IF g.extra_field_policy = "error" /\ extra_keys(g, value) # {}
                    THEN own_error(kept, Invalid("unexpected_fields"))
                    ELSE kept
         IN  IF /\ g.extra_field_policy = "save"
                /\ extra_keys(g, value) # {}
                /\ r.exc = "Invalid"
             THEN \* result[key] = value[key] with result never assigned
                  Raises("UnboundLocalError", NoInvalid, r.visits)
             ELSE IF has_errors(agg) THEN Raises("Invalid", agg, r.visits)
             ELSE IF g.extra_field_policy = "save"
             THEN Returns(Dict(r.result.items @@ Extras(g, value)), r.visits)
             ELSE r

validate_mapping(g, value, error_mode, path) ==
    IF value.kind # "dict" THEN Raises("Invalid", Invalid("type_error"), <<>>)
    ELSE LET r == apply_schema("validate", g, value, error_mode, path) IN
         IF r.exc \notin {"None", "Invalid"} THEN r
         ELSE LET kept == IF r.exc = "Invalid" THEN own_error(NoInvalid, r.err)
                          ELSE NoInvalid
                  agg == IF /\ g.extra_field_policy \in {"error", "discard"}
                            /\ extra_keys(g, value) # {}
                         THEN own_error(kept, Invalid("unexpected_fields"))
                         ELSE kept
              IN  IF has_errors(agg) THEN Raises("Invalid", agg, r.visits)
                  ELSE Returns(NoneVal, r.visits)

schema_mapping(op, g, v, error_mode, path) ==
    IF op = "dictify" THEN dictify_mapping(g, v, error_mode, path)
    ELSE IF op = "undictify" THEN undictify_mapping(g, v, error_mode, path)
    ELSE IF op = "validate" THEN validate_mapping(g, v, error_mode, path)
    ELSE LET r == apply_schema(op, g, v, error_mode, path) IN
         IF r.exc = "None" /\ op = "traverse" THEN Returns(NoneVal, r.visits)
         ELSE r

\* Polymorph.name_for_val: the polymorph knows int under the name 'num'
name_for_val(v) == IF v.kind = "int" THEN "num" ELSE "UnknownType"

apply_pmorph(op, v, error_mode, path) ==
    IF name_for_val(v) = "UnknownType"
    THEN IF error_mode = IGNORE THEN Raises("UnknownType", NoInvalid, <<>>)
         ELSE Raises("Invalid", Invalid("type_error"), <<>>)
    ELSE LET r == call(op, IntLeaf, v, error_mode, Append(path, 0))
             seen == <<Visit1(path, 0, v)>> \o r.visits
         IN  IF r.exc # "None" THEN Raises(r.exc, r.err, seen)
             ELSE Returns(Pair(name_for_val(v), r.result), seen)

\* the handler the operation resolves to for the descriptor
call(op, g, v, error_mode, path) ==
    IF g.kind \in {"Int", "String"} THEN leaf(op, g, v, error_mode)
    ELSE IF g.kind = "Object" THEN object_marker(op, g, v, error_mode, path)
    ELSE IF g.kind = "Mapping" THEN schema_mapping(op, g, v, error_mode, path)
    ELSE IF g.kind = "Polymorph"
    THEN IF op = "traverse" THEN Returns(NoneVal, <<>>)     \* traverse_object
         ELSE LET r == apply_pmorph(op, v, error_mode, path) IN
              IF r.exc # "None" THEN r
              ELSE IF op = "validate" THEN Returns(NoneVal, r.visits)
              ELSE IF op = "dictify" THEN r                  \* (name, value)
              ELSE Returns(r.result.value, r.visits)         \* clone_pmorph
    ELSE IF op = "mutate" THEN mutate_schema(g, v, error_mode, path)
    ELSE LET r == apply_schema(op, g, v, error_mode, path) IN
         IF r.exc = "None" /\ op \in {"traverse", "validate"}
         THEN Returns(NoneVal, r.visits)
         ELSE r

SchemaOps == {"traverse", "validate", "clone", "mutate", "dictify"}

\* the descriptors and values the operations are called on
ChildGraphs == {IntLeaf, PolyNode, SchemaOf([k \in FieldNames |-> IntLeaf])}
SchemaGraphs ==
    {PolyNode} \cup
    {SchemaOf(cs) : cs \in UNION {[1..n -> ChildGraphs] : n \in 1..MaxFields}}
ChildValues ==
    {IntVal, StrVal, Dict(<<>>), Dict([k \in FieldNames |-> IntVal]),
     Dict([k \in FieldNames |-> StrVal])}
SchemaValues ==
    {IntVal, StrVal} \cup
    {Dict(f) : f \in UNION {[S -> ChildValues] : S \in SUBSET FieldNames}}

\* op(graph, value, error_mode=mode)
CallOperation ==
    /\ Idle
    /\ \E op \in SchemaOps, g \in SchemaGraphs, v \in SchemaValues,
          mode \in ErrorModes :
           cur' = [active |-> TRUE, level |-> "schema", op |-> op, graph |-> g,
                   value |-> v, error_mode |-> mode, result |-> NoneVal]
    /\ UNCHANGED <<trace, raised>>
    /\ UNCHANGED <<dvars, docvars>>

\* the call runs to its end
RunOperation ==
    /\ cur.active
    /\ \E r \in {call(cur.op, cur.graph, cur.value, cur.error_mode, <<>>)} :
           /\ cur' = [cur EXCEPT !.active = FALSE, !.result = r.result]
           /\ trace' = <<[path |-> <<>>, val |-> cur.value]>> \o r.visits
           /\ raised' = IF r.exc = "None" THEN [type |-> "None"]
                        ELSE [type |-> r.exc, err |-> r.err]
    /\ UNCHANGED <<dvars, docvars>>

(* Scenario: a value is dictified and the result undictified, or a plain   *)
(* form undictified and the result dictified (tests/test_schema.py).       *)

\* the entry points with their defaults for error_mode
dictify(g, v) == call("dictify", g, v, IGNORE, <<>>)
undictify(g, v) == call("undictify", g, v, CHECK_ALL, <<>>)
validate(g, v) == call("validate", g, v, CHECK_ALL, <<>>)

\* Point of the tests: x and y are Int(), label is String()
Point == ObjectOf("Point", <<IntLeaf, IntLeaf, StrLeaf>>)
plain_data == Dict(<<IntOf(-12), IntOf(1), StrOf("foo")>>)
Inner == ObjectOf("Inner", <<IntLeaf>>)
Policies == {"save", "discard", "error"}
TripGraphs ==
    {Point, ObjectOf("TwoInner", <<Inner, Inner>>)}
    \cup {MappingOf(p, <<IntLeaf, StrLeaf>>) : p \in Policies}
    \cup {MappingOf(p, <<Inner>>) : p \in Policies}
    \cup {ObjectOf("Holder", <<MappingOf(p, <<IntLeaf>>)>>) : p \in Policies}

LeafValues == {IntOf(-12), IntOf(1), StrOf("foo"), NoneVal}
ExtraValues == {IntOf(1)}

\* the inputs: under each name of the descriptor a candidate for that child
\* or nothing, with or without one more name; plain forms are dicts all the
\* way down, values have instances where the descriptor has objects
RECURSIVE Candidates(_, _)
RECURSIVE ItemMaps(_, _, _)
ItemMaps(g, plain, k) ==
    IF k = 0 THEN {<<>>}
    ELSE LET prev == ItemMaps(g, plain, k - 1) IN
         prev \cup {(k :> v) @@ m : m \in prev, v \in Candidates(g.edges[k], plain)}
WithExtra(g, maps) ==
    maps \cup {((Len(g.edges) + 1) :> e) @@ m : m \in maps, e \in ExtraValues}
Candidates(g, plain) ==
    IF g.kind \in {"Int", "String"} THEN LeafValues
    ELSE LET maps == WithExtra(g, ItemMaps(g, plain, Len(g.edges))) IN
         {NoneVal} \cup
         (IF g.kind = "Object" /\ ~plain
          THEN {Instance(g.target_cls, m) : m \in maps}
          ELSE {Dict(m) : m \in maps})

NotCalled == [exc |-> "NotCalled"]

\* dictify(T, x) or undictify(T, d)
CallConvert ==
    /\ cur = [active |-> FALSE]
    /\ \E g \in TripGraphs, op \in {"dictify", "undictify"} :
         \E v \in Candidates(g, op = "undictify") :
           cur' = [active |-> TRUE, level |-> "trip", op |-> op, graph |-> g,
                   value |-> v,
                   first |-> IF op = "dictify" THEN dictify(g, v)
                             ELSE undictify(g, v),
                   second |-> NotCalled]
    /\ UNCHANGED <<trace, raised, dvars, docvars>>

\* the other operation, called on what the first one returned
ConvertBack ==
    /\ cur # [active |-> FALSE]
    /\ cur.level = "trip"
    /\ cur.active
    /\ cur.first.exc = "None"
    /\ cur' = [cur EXCEPT !.active = FALSE,
                          !.second = IF cur.op = "dictify"
                                     THEN undictify(cur.graph, cur.first.result)
                                     ELSE dictify(cur.graph, cur.first.result)]
    /\ UNCHANGED <<trace, raised, dvars, docvars>>

-----------------------------------------------------------------------------
(* Scenario: defaults for keyword arguments (tests/test_dispatcher.py)     *)

\* default_value(argname, value): calls that do not give argname get value
default_value(r, argname, value) ==
    defaults' = [defaults EXCEPT ![r][argname] = [given |-> TRUE, factory |-> FALSE, v |-> value]]

\* default_factory(argname, thunk), thunk = lambda: value
Dispatcher_default_factory(r, argname, value) ==
    defaults' = [defaults EXCEPT ![r][argname] = [given |-> TRUE, factory |-> TRUE, v |-> value]]

\* the default for argname of the first registry of mro that has one
RECURSIVE DefaultFor(_, _)
DefaultFor(mro, argname) ==
    IF mro = <<>> THEN NoArg
    ELSE IF defaults[Head(mro)][argname] # NoArg THEN defaults[Head(mro)][argname]
    ELSE DefaultFor(Tail(mro), argname)

\* a variant in which a registered default replaces the caller's argument
DefaultsFirst(r, kwargs) ==
    [a \in ArgNames |->
        LET d == DefaultFor(dispatch_mro[r], a) IN
        IF d # NoArg THEN Given(d.v) ELSE kwargs[a]]

\* the keyword arguments the handler receives: the caller's, and for each
\* name the caller did not give the registered default (value, or thunk())
with_defaults(r, kwargs) ==
    [a \in ArgNames |->
        LET d == DefaultFor(dispatch_mro[r], a) IN
        IF kwargs[a] # NoArg \/ d = NoArg THEN kwargs[a] ELSE Given(d.v)]

\* add = Dispatcher(); @add.when(int) def add_int(d, v, x): ...
InitKw ==
    /\ nreg = 1
    /\ mapping = <<[k \in Keys \cup MarkerKeys |->
                      IF k = Cls(0) THEN Handler(1, k, "ret") ELSE NoFn]>>
    /\ _default = <<NoFn>>
    /\ keyfn = <<NoKeyfn>>
    /\ dispatch_mro = <<(<<1>>)>>
    /\ parents = <<(<<>>)>>
    /\ attempt = [parents |-> <<>>, keyfn |-> NoKeyfn, ok |-> TRUE, made |-> 1]
    /\ sub_of = <<0>>
    /\ defaults = <<NoDefaults>>
    /\ nops = 0

\* mul = add.sub()
SubKw == SubUpTo(MaxRegKw)

\* @mul.when(int) def mul_int(d, v, x): ...
RegisterKw ==
    /\ Idle
    /\ \E r \in Regs :
           /\ mapping[r][Cls(0)] = NoFn
           /\ register(r, Cls(0), Handler(r, Cls(0), "ret"))
    /\ UNCHANGED <<nreg, _default, keyfn, dispatch_mro, parents, attempt,
                   defaults, sub_of, nops>>
    /\ UNCHANGED <<rvars, docvars>>

\* d.default_value(name, v) / d.default_factory(name, lambda: v)
SetDefaultArg ==
    /\ Idle
    /\ nops < MaxOpsKw
    /\ \E r \in Regs, a \in ArgNames, v \in ArgVals :
           \/ default_value(r, a, v)
           \/ Dispatcher_default_factory(r, a, v)
    /\ nops' = nops + 1
    /\ UNCHANGED <<nreg, mapping, _default, keyfn, dispatch_mro, parents,
                   attempt, sub_of>>
    /\ UNCHANGED <<rvars, docvars>>

\* d(2, **kwargs): the handler def h(d, v, x, **rest) is called with the
\* completed keywords; without x the call raises TypeError
CallKw ==
    /\ Idle
    /\ \E r \in Regs, kwargs \in [ArgNames -> {Given(v) : v \in ArgVals} \cup {NoArg}] :
         \E fn \in {dispatch(AsDispatcher(r), Plain(0)).fn},
            kw \in {with_defaults(r, kwargs)} :
           /\ cur' = [active |-> FALSE, level |-> "kw", reg |-> r,
                      kwargs |-> kwargs]
           /\ IF kw["x"] = NoArg
              THEN /\ trace' = <<>>
                   /\ raised' = [type |-> "TypeError"]
              ELSE /\ trace' = <<[fn |-> fn, kwargs |-> kw]>>
                   /\ raised' = [type |-> "None"]
    /\ UNCHANGED <<dvars, docvars>>

-----------------------------------------------------------------------------
(* cantrips/dispatcher.py: merge called directly *)

MergeItems == 1..3

\* the arguments of merge: up to n lists of up to m items each
MergeInputs(n, m) ==
    LET Lists == UNION {[1..k -> MergeItems] : k \in 0..m}
    IN  UNION {[1..k -> Lists] : k \in 0..n}

\* r = merge(lists), or the ValueError it raises
CallMerge ==
    /\ cur = [active |-> FALSE]
    /\ \E lists \in MergeInputs(MaxMergeLists, MaxMergeLen) :
           cur' = [active |-> FALSE, level |-> "merge", lists |-> lists,
                   result |-> merge(lists)]
    /\ UNCHANGED <<trace, raised, dvars, docvars>>

-----------------------------------------------------------------------------
(* Specifications *)

InitMro == InitRegs /\ InitRun /\ InitNoDocs
NextMro == NewDispatcherMro

NextKw ==
    \/ SubKw
    \/ RegisterKw
    \/ SetDefaultArg
    \/ CallKw
    \/ Return

InitMerge == InitRegs /\ InitRun /\ InitNoDocs
NextMerge == CallMerge

InitDisp == InitRegs /\ InitRun /\ InitNoDocs
NextDisp ==
    \/ NewDispatcher
    \/ Sub
    \/ Register
    \/ SetDefault
    \/ CallDispatcher
    \/ CallDispatchSuper
    \/ Invoke
    \/ Return

InitGraph == InitRegs /\ InitRun /\ InitNoDocs
NextGraph ==
    \/ NewGraphDispatcher
    \/ SubGraph
    \/ RegisterGraph
    \/ SetDefaultGraph
    \/ CallGraph
    \/ Invoke
    \/ Return

InitDoc == InitRegs /\ InitRun /\ InitDocs
NextDoc ==
    \/ StartDictify
    \/ StartClone
    \/ StartTraverse
    \/ StartMutate
    \/ DictifyStep
    \/ CloneStep
    \/ TraverseStep
    \/ MutateStep

NextLoad ==
    \/ Document__init__
    \/ CreateUnloaded
    \/ DocumentLoad
    \/ DocumentLoadExtra
    \/ NextStatement

NextAgain ==
    \/ StartDictify
    \/ StartClone
    \/ StartTraverse
    \/ StartMutate
    \/ DictifyStep
    \/ CloneStep
    \/ TraverseStep
    \/ MutateStep
    \/ StartGraphize
    \/ GraphizeStep
    \/ CallAgain

NextCloneNew ==
    \/ StartCloneNewUids
    \/ CloneStep

InitWrap == InitBase /\ InitRun /\ InitNoDocs
NextWrap ==
    \/ make_dispatcher
    \/ SubWrap
    \/ RegisterWrap
    \/ CallWrapped
    \/ Invoke
    \/ Return

InitSchema == InitRegs /\ InitRun /\ InitNoDocs
NextSchema ==
    \/ CallOperation
    \/ RunOperation
    \/ Return

InitSet == InitRegs /\ InitRun /\ InitNoDocs
NextSet ==
    \/ Document__init__
    \/ CreateUnloaded
    \/ DocumentLoad
    \/ DocSetAdd
    \/ DocSetGet
    \/ DocSetCreate
    \/ DocSetGetOrCreate
    \/ DocSetLoad
    \/ NextStatement

vars == <<dvars, rvars, docvars>>
SpecMro == InitMro /\ [][NextMro]_vars
SpecDisp == InitDisp /\ [][NextDisp]_vars
SpecGraph == InitGraph /\ [][NextGraph]_vars
SpecDoc == InitDoc /\ [][NextDoc]_vars
SpecSet == InitSet /\ [][NextSet]_vars
SpecWrap == InitWrap /\ [][NextWrap]_vars
SpecSchema == InitSchema /\ [][NextSchema]_vars
SpecMerge == InitMerge /\ [][NextMerge]_vars
SpecCloneNew == InitDoc /\ [][NextCloneNew]_vars
SpecAgain == InitDoc /\ [][NextAgain]_vars
SpecLoad == InitSet /\ [][NextLoad]_vars
InitKwCall == InitKw /\ InitRun /\ InitNoDocs
SpecKw == InitKwCall /\ [][NextKw]_vars

InitTrip == InitRegs /\ InitRun /\ InitNoDocs
NextTrip ==
    \/ CallConvert
    \/ ConvertBack
SpecTrip == InitTrip /\ [][NextTrip]_vars

-----------------------------------------------------------------------------
(* Properties of the resolution order *)

Before(l, a, b) == \E p, q \in 1..Len(l) : p < q /\ l[p] = a /\ l[q] = b

\* l keeps the relative order of every pair of elements of part
IsSubSequence(part, l) ==
    /\ Range(part) \subseteq Range(l)
    /\ \A a, b \in Range(part) : Before(part, a, b) => ~Before(l, b, a)

\* two of the lists order some pair of elements in opposite ways
Conflicting(lists) ==
    \E i, j \in 1..Len(lists) :
        \E a \in Range(lists[i]), b \in Range(lists[i]) :
            Before(lists[i], a, b) /\ Before(lists[j], b, a)

RECURSIVE Ancestors(_)
Ancestors(r) ==
    UNION {{parents[r][i]} \cup Ancestors(parents[r][i]) : i \in 1..Len(parents[r])}

ParentOrders(ps) == [i \in 1..Len(ps) |-> dispatch_mro[ps[i]]]

\* C5: the dispatch_mro of every registry that was built starts with the
\* registry itself, holds the registry and each of its ancestors exactly once,
\* and keeps the resolution order of each parent as a sub-sequence.
C5_MroIsLinearization ==
    \A r \in Regs :
        /\ dispatch_mro[r][1] = r
        /\ NoDup(dispatch_mro[r])
        /\ Range(dispatch_mro[r]) = {r} \cup Ancestors(r)
        /\ \A i \in 1..Len(parents[r]) :
               IsSubSequence(dispatch_mro[parents[r][i]], dispatch_mro[r])

\* a registry built from two different parents that share an ancestor
C5_Witness ==
    \E r \in Regs :
        /\ Len(parents[r]) = 2
        /\ parents[r][1] # parents[r][2]
        /\ Ancestors(parents[r][1]) \cap Ancestors(parents[r][2]) # {}
        /\ Len(dispatch_mro[r]) >= 4

\* C6: merge([[1,2],[2,1]]) raises ValueError, and a Dispatcher construction
\* whose parents' resolution orders conflict raises it too and builds no
\* registry.
C6_ConflictRaises ==
    [][Conflicting(ParentOrders(attempt'.parents))
         => /\ ~attempt'.ok
            /\ nreg' = nreg
            /\ dispatch_mro' = dispatch_mro
            /\ ~merge(<<(<<1, 2>>), (<<2, 1>>)>>).ok]_vars

\* a construction was attempted with conflicting parents and failed
C6_Witness ==
    /\ ~attempt.ok
    /\ Conflicting(ParentOrders(attempt.parents))

-----------------------------------------------------------------------------
(* Properties of resolution *)

HasEntry(r, k) == k \in DOMAIN mapping[r] /\ mapping[r][k] # NoFn
AnyEntry(mro, k) == \E j \in 1..Len(mro) : HasEntry(mro[j], k)
IsDefault(fn) == fn.key = -1
Defaults(mro) == {j \in 1..Len(mro) : _default[mro[j]] # NoFn}

\* fn is the entry of the first (key, registry) pair that has one, keys outermost
KeyMajorChoice(fn, keys, mro) ==
    \E i \in 1..Len(keys), j \in 1..Len(mro) :
        /\ HasEntry(mro[j], keys[i])
        /\ fn = mapping[mro[j]][keys[i]]
        /\ \A i2 \in 1..Len(keys), j2 \in 1..Len(mro) :
               (i2 < i \/ (i2 = i /\ j2 < j)) => ~HasEntry(mro[j2], keys[i2])

PlainCall(c) == c.level = "disp" /\ ~c.dt.super /\ ~c.target.sm

\* C1: a Dispatcher resolves a value key-major: the handler it invokes is the
\* entry of the first (key, registry) pair, scanning the value's keys in
\* order and for each key the registries of dispatch_mro in order; it fails
\* to resolve only when no pair has an entry.
C1_KeyMajor ==
    /\ \A n \in 1..Len(trace) :
           LET e == trace[n]
               keys == _to_keys(e.dt, e.target)
               mro == dispatch_mro[e.dt.disp]
           IN  PlainCall(e) =>
                   IF \E i \in 1..Len(keys) : AnyEntry(mro, keys[i])
                   THEN KeyMajorChoice(e.fn, keys, mro)
                   ELSE IsDefault(e.fn)
    /\ (raised.type = "NotImplementedError" /\ PlainCall(raised.call)) =>
           LET keys == _to_keys(raised.call.dt, raised.call.target)
           IN  \A i \in 1..Len(keys) :
                   ~AnyEntry(dispatch_mro[raised.call.dt.disp], keys[i])

\* an ancestor's entry for an earlier key was invoked although the registry
\* itself has an entry for a later key of the value
C1_Witness ==
    \E n \in 1..Len(trace) :
        LET e == trace[n]
            keys == _to_keys(e.dt, e.target)
        IN  /\ PlainCall(e)
            /\ e.fn.reg # e.dt.disp
            /\ \E k \in Range(keys) :
                   Before(keys, e.fn.key, k) /\ HasEntry(e.dt.disp, k)

\* the first key of v's key list that has an entry in c's resolution order
FirstMatchingKey(c, v, K) ==
    LET keys == _to_keys(AsDispatcher(c), v) IN
    /\ K \in Range(keys)
    /\ \A k \in Range(keys) : Before(keys, k, K) => ~AnyEntry(dispatch_mro[c], k)

SubInherits ==
    \A c \in Regs : sub_of[c] # 0 =>
        /\ keyfn[c] = keyfn[sub_of[c]]
        /\ parents[c] = <<sub_of[c]>>

SubOverrides ==
    \A c \in Regs : sub_of[c] # 0 =>
        \A v \in Values, K \in Keys :
            (HasEntry(c, K) /\ HasEntry(sub_of[c], K) /\ FirstMatchingKey(c, v, K))
            => /\ dispatch(AsDispatcher(c), v).fn = mapping[c][K]
               /\ dispatch(AsDispatcher(sub_of[c]), v).fn = mapping[sub_of[c]][K]

\* C2: for C = P.sub(), C has P's key function; a value whose first matching
\* key K is registered in both resolves to C's handler through C and to P's
\* handler through P; and a register or set_default on C changes the result
\* of no resolution through P.
C2_SubLeavesParent ==
    [][/\ SubInherits'
       /\ SubOverrides'
       /\ \A c \in Regs :
              (sub_of[c] # 0 /\ (mapping'[c] # mapping[c] \/ _default'[c] # _default[c]))
              => \A t \in Targets(keyfn[sub_of[c]]) :
                     dispatch(AsDispatcher(sub_of[c]), t)'
                         = dispatch(AsDispatcher(sub_of[c]), t)]_vars

\* with a key registered in both C and P = the registry C was derived from,
\* a call through P has invoked P's own handler for it
C2_Witness ==
    \E c \in Regs, K \in Keys :
        /\ sub_of[c] # 0
        /\ HasEntry(c, K)
        /\ HasEntry(sub_of[c], K)
        /\ Len(trace) = 1
        /\ trace[1].dt = AsDispatcher(sub_of[c])
        /\ trace[1].fn = mapping[sub_of[c]][K]
        /\ mapping[c][K] # mapping[sub_of[c]][K]

\* the kinds strictly after K in the ancestry chain
LaterKinds(chain, K) == {k \in Range(chain) : Before(chain, K, k)}

TraceFns == [n \in 1..Len(trace) |-> trace[n].fn]

\* C3: when a handler registered for kind K calls dispgraph.super(K)(), the
\* handler invoked next is the entry of the nearest kind strictly after K in
\* the marker's ancestry chain that has one (a default if none has, and
\* NotImplementedError if there is no default), never K's handler again; no
\* handler runs twice in one call and the delegation ends.
C3_SuperDelegates ==
    /\ raised.type # "RecursionError"
    /\ NoDup(TraceFns)
    /\ \A n \in 1..Len(trace) :
           LET e == trace[n]
               chain == TypeMro(Unwrap(e.target))
               later == LaterKinds(chain, e.fn.key)
               mro == MroOf(e.dt)
           IN  (e.level = "graph" /\ e.fn.kind = "super") =>
                   IF n < Len(trace)
                   THEN LET f == trace[n + 1].fn IN
                        /\ f # e.fn
                        /\ IF \E k \in later : AnyEntry(mro, k)
                           THEN /\ f.key \in later
                                /\ \A k \in later :
                                       Before(chain, k, f.key) => ~AnyEntry(mro, k)
                                /\ \E j \in 1..Len(mro) :
                                       HasEntry(mro[j], f.key) /\ f = mapping[mro[j]][f.key]
                           ELSE IsDefault(f)
                   ELSE \/ cur.active
                        \/ /\ raised.type = "NotImplementedError"
                           /\ \A k \in later : ~AnyEntry(mro, k)
                           /\ Defaults(mro) = {}

\* the handlers for Cls(2), Cls(1) and Cls(0) ran in this order, the first
\* two delegating with super, and the call returned
C3_Witness ==
    /\ ~cur.active
    /\ raised.type = "None"
    /\ Len(trace) = 3
    /\ \A n \in 1..3 : trace[n].fn.key = Cls(3 - n) /\ trace[n].fn.reg = 1
    /\ trace[1].fn.kind = "super"
    /\ trace[2].fn.kind = "super"

ClaimedKeys(c) ==
    LET keys == _to_keys(c.dt, Unwrap(c.target)) IN
    IF c.target.sm THEN KeysAfter(keys, c.target.key) ELSE keys

\* calls whose from_key, if any, is a true value that is one of the keys
TruthyCall(c) ==
    /\ c.level = "disp"
    /\ c.target.sm =>
           /\ Truthy(c.target.key)
           /\ ~c.target.val.sm
           /\ c.target.key \in Range(_to_keys(c.dt, c.target.val))

\* C7: when no key of the (truncated) key list has an entry in the merge
\* order, the call invokes the default of the first registry that declares
\* one; if none does it raises NotImplementedError carrying the key list of
\* the target value, plain or wrapped in a SuperMarker, and invokes nothing;
\* a default is never invoked while a key of the list has an entry.
C7_DefaultOrNotImplemented ==
    /\ \A n \in 1..Len(trace) :
           LET e == trace[n]
               mro == MroOf(e.dt)
               keys == ClaimedKeys(e)
           IN  TruthyCall(e) =>
                   IF \E i \in 1..Len(keys) : AnyEntry(mro, keys[i])
                   THEN ~IsDefault(e.fn)
                   ELSE /\ Defaults(mro) # {}
                        /\ e.fn = _default[mro[CHOOSE j \in Defaults(mro) :
                                                   \A j2 \in Defaults(mro) : j <= j2]]
    /\ (raised.type = "NotImplementedError" /\ TruthyCall(raised.call)) =>
           LET c == raised.call
               mro == MroOf(c.dt)
           IN  /\ trace = <<>>
               /\ Defaults(mro) = {}
               /\ \A i \in 1..Len(ClaimedKeys(c)) : ~AnyEntry(mro, ClaimedKeys(c)[i])
               /\ raised.arg \in {ClaimedKeys(c), _to_keys(c.dt, Unwrap(c.target))}

\* the test's registries: d1 = registry 1, d2 = d1.sub() = registry 2, and
\* the handlers named in the test, Foo = Cls(0) and Bar = Cls(1)
SuperParentSetup ==
    /\ nreg = 2 /\ sub_of[2] = 1
    /\ Len(trace) > 0
    /\ trace[1].level = "graph"
    /\ trace[1].dt = AsDispatcher(2)
    /\ trace[1].target = Plain(1)
    /\ ~cur.active
d1_foo == Handler(1, Cls(0), "ret")
d1_bar == Handler(1, Cls(1), "super")
d2_foo == Handler(2, Cls(0), "parent")

RootCall ==
    IF trace # <<>> THEN Pending("graph", trace[1].target, trace[1].dt)
    ELSE IF cur.active THEN cur
    ELSE raised.call

\* operation r has no handler of its own for Wrapper or for a wrapper kind
\* of ws: the only one in its resolution order is base_dispatcher's
PassThroughOnly(r, ws) ==
    \A q \in Range(dispatch_mro[r]), k \in Range(ws) \cup {KWrapper} :
        mapping[q][k] # NoFn => mapping[q][k] = pass_through_wrapper

\* the handlers the call c runs, in order, and the exception that ends it
RECURSIVE ResultOf(_, _)
ResultOf(c, fns) ==
    IF ~c.active THEN [fns |-> fns, raised |-> "None"]
    ELSE LET d == dispatch(c.dt, c.target) IN
         IF d.err THEN [fns |-> fns, raised |-> "ValueError"]
         ELSE IF d.fn = NoFn THEN [fns |-> fns, raised |-> "NotImplementedError"]
         ELSE ResultOf(HandlerBody(d.fn, c, PassedVal(c)), Append(fns, d.fn))

\* C17: an operation derived from base_dispatcher that has no handler for
\* the wrapper kinds of a stack of Wrappers, applied to the wrapped
\* descriptor, runs pass_through_wrapper once per layer, each on the
\* descriptor with exactly one layer less than the one before and on the
\* operation's own registry, never recurses without end, and then does and
\* gives exactly what it does and gives applied to the innermost descriptor
C17_WrapperPassThrough ==
    ~Idle =>
        LET ws == RootCall.target.wraps
            k == Len(ws)
            n == RootCall.target.n
            r == RootCall.dt.disp
            layer(i) == Wrapped(SubSeq(ws, i, k), n)
            direct == Pending("graph", Wrapped(<<>>, n), AsDispatcher(r))
        IN  PassThroughOnly(r, ws) =>
                /\ raised.type # "RecursionError"
                /\ \A i \in 1..k : i <= Len(trace) =>
                       /\ trace[i].fn = pass_through_wrapper
                       /\ trace[i].target = layer(i)
                       /\ trace[i].val = layer(i)
                       /\ trace[i].dt = AsDispatcher(r)
                /\ Len(trace) < k =>
                       cur = Pending("graph", layer(Len(trace) + 1), AsDispatcher(r))
                /\ Len(trace) = k /\ cur.active => cur = direct
                /\ ~cur.active =>
                       [fns |-> [i \in 1..(Len(trace) - k) |-> trace[k + i].fn],
                        raised |-> raised.type] = ResultOf(direct, <<>>)

\* undictify(Foo(Bar(Int())), 12) on an operation made by sub() of an
\* operation that handles Marker itself: both wrappers were passed through
\* by base_dispatcher's handler and the Marker handler got the Int()
C17_Witness ==
    /\ ~cur.active
    /\ raised.type = "None"
    /\ Len(trace) = 3
    /\ trace[1].target = Wrapped(<<KFoo, KBar>>, 0)
    /\ trace[1].dt = AsDispatcher(3)
    /\ dispatch_mro[3] = <<3, 2, 1>>
    /\ PassThroughOnly(3, <<KFoo, KBar>>)
    /\ trace[2].fn = pass_through_wrapper
    /\ trace[3].fn = Handler(2, KMarker, "ret")
    /\ trace[3].val = Wrapped(<<>>, 0)

-----------------------------------------------------------------------------
(* Properties of the document operations *)

\* the source objects a call on root comes to: root and, transitively, the
\* documents that loaded ones refer to
RECURSIVE ReachFrom(_)
ReachFrom(S) ==
    LET T == S \cup UNION {Range(heap[d].kids) : d \in S}
    IN  IF T = S THEN S ELSE ReachFrom(T)
Root == enc[1].src
Reached == ReachFrom({Root})

RECURSIVE SumKids(_)
SumKids(S) ==
    IF S = {} THEN 0
    ELSE LET x == CHOOSE y \in S : TRUE IN Len(heap[x].kids) + SumKids(S \ {x})

RECURSIVE SumValues(_)
SumValues(S) ==
    IF S = {} THEN 0
    ELSE LET x == CHOOSE y \in S : TRUE IN heap[x].value + SumValues(S \ {x})

Sources == SubSeq(heap, 1, nsrc)
FirstOf(i) == \A j \in 1..(i - 1) : enc[j].src # enc[i].src
Normal == outcome \in {"none", "running", "returned"}

CloneClaim(same(_, _)) ==
    doc_op = "clone" =>
        /\ Normal
        /\ Len(stack) <= nsrc + 1
        /\ \A i, j \in 1..Len(enc) :
               same(enc[i].src, enc[j].src) <=> enc[i].res = enc[j].res
        /\ \A i \in 1..Len(enc) :
               /\ enc[i].res \in (nsrc + 1)..Len(heap)
               /\ heap[enc[i].res].uid = heap[enc[i].src].uid
               /\ heap[enc[i].res].type = heap[enc[i].src].type
        /\ outcome = "returned" =>
               /\ {enc[i].res : i \in 1..Len(enc)} = (nsrc + 1)..Len(heap)
               /\ out = <<enc[1].res>>
               /\ \A i \in 1..Len(enc) :
                      LET s == heap[enc[i].src]
                          n == heap[enc[i].res]
                      IN  (\A j \in 1..(i - 1) : ~same(enc[j].src, enc[i].src)) =>
                          /\ n.loaded = s.loaded
                          /\ n.value = s.value
                          /\ Len(n.kids) = Len(s.kids)
                          /\ \A k \in 1..Len(s.kids) :
                                 \E j \in 1..Len(enc) :
                                     /\ same(enc[j].src, s.kids[k])
                                     /\ enc[j].res = n.kids[k]
               /\ Sources = mklist(3, TRUE) =>
                      heap[heap[heap[out[1]].kids[1]].kids[1]].kids[1] = out[1]

SameObject(a, b) == a = b
SameKey(a, b) == DocKey(heap[a]) = DocKey(heap[b])

\* C9 as stated: clone ends and makes exactly one new document per distinct
\* source document reached, returns that instance at every later encounter
\* of the same source document, keeps uids and the shape of the graph by
\* identity, and no document of the copy is a source object.
C9_OnePerSourceObject ==
    /\ CloneClaim(SameObject)
    /\ (doc_op = "clone" /\ outcome = "returned") =>
           {enc[i].src : i \in 1..Len(enc)} = Reached

\* C9, amended: clone ends and makes exactly one new document per distinct
\* (type, uid) of the source documents reached, returning that instance at
\* every encounter of a source document of that type and uid; each new
\* document has the uid, the loaded flag and the fields of the first source
\* document of its type and uid that was reached, its references replaced
\* by the new documents made for them, and none is a source object.
C9_OnePerKey == CloneClaim(SameKey)

\* the clone of the closed list of three nodes has returned, or that of a
\* document that lists one document twice
C9_Witness ==
    /\ doc_op = "clone"
    /\ outcome = "returned"
    /\ \/ Sources = mklist(3, TRUE) /\ Len(heap) = 6
       \/ /\ nsrc = 2 /\ Root = 1 /\ heap[1].kids = <<2, 2>>
          /\ heap[out[1]].kids[1] = heap[out[1]].kids[2]
          /\ heap[out[1]].kids[1] \notin {1, 2, out[1]}

-----------------------------------------------------------------------------
(* Properties of documents and DocSets *)

\* the step is a call of the operation name; Arg(i) is its i-th argument
CallOf(name) == doc_op' = name
Arg(i) == enc'[1].src[i]
InDocSet(t, u) == <<t, u>> \in DOMAIN in_docset
Kept == heap' = heap /\ in_docset' = in_docset

\* C12: a loaded document stays loaded and keeps its fields whatever is
\* called, so a document is loaded at most once; load() on a loaded document
\* raises DoubleLoadException and changes nothing, and load() on an unloaded
\* one loads it with the values given.
C12_LoadOnce ==
    [][/\ \A d \in 1..Len(heap) :
              heap[d].loaded => Len(heap') >= d /\ heap'[d] = heap[d]
       /\ CallOf("Document.load") =>
              IF heap[Arg(1)].loaded
              THEN outcome' = "DoubleLoadException" /\ Kept
              ELSE /\ outcome' = "returned"
                   /\ heap'[Arg(1)].loaded
                   /\ heap'[Arg(1)].value = Arg(2)]_vars

\* load() with another value was called on a loaded document
C12_Witness ==
    /\ doc_op = "Document.load"
    /\ outcome = "DoubleLoadException"
    /\ heap[enc[1].src[1]].loaded
    /\ heap[enc[1].src[1]].value # enc[1].src[2]

\* C13: get_or_create(T, k) returns the entry of (T, k) when there is one and
\* changes nothing then, and otherwise registers a new unloaded document of
\* type T and uid k and returns it; no call replaces an entry, so every later
\* get_or_create gives the same object.  A load(T, raw) that returns, for a
\* raw that names the uid of an unloaded entry and carries its fields,
\* returns that very object: reading its field raised
\* UnloadedDocumentException before the call and gives raw's value after.
C13_GetOrCreateStable ==
    [][/\ \A k \in DOMAIN in_docset :
              k \in DOMAIN in_docset' /\ in_docset'[k] = in_docset[k]
       /\ CallOf("get_or_create") =>
              /\ outcome' = "returned"
              /\ in_docset'[<<Arg(1), Arg(2)>>] = out'[1]
              /\ IF InDocSet(Arg(1), Arg(2))
                 THEN Kept
                 ELSE /\ out'[1] = Len(heap) + 1
                      /\ heap' = Append(heap, _create_unloaded(Arg(1), Arg(2)))
                      /\ DOMAIN in_docset' = DOMAIN in_docset \cup {<<Arg(1), Arg(2)>>}
       /\ (/\ CallOf("load")
           /\ outcome' = "returned"
           /\ Arg(2).full
           /\ InDocSet(Arg(1), Arg(2).uid)
           /\ ~heap[in_docset[<<Arg(1), Arg(2).uid>>]].loaded) =>
              LET p == in_docset[<<Arg(1), Arg(2).uid>>]
              IN  /\ out'[1] = p
                  /\ __getattr__(heap[p]) = "UnloadedDocumentException"
                  /\ __getattr__(heap'[p]) = Arg(2).value]_vars

\* load has returned the first of two objects, which it cannot have made
\* itself: it was an unloaded entry and now holds the value of raw
C13_Witness ==
    /\ doc_op = "load"
    /\ outcome = "returned"
    /\ enc[1].src[2].full /\ enc[1].src[2].kids = <<>> /\ ~enc[1].src[3]
    /\ out = <<1>>
    /\ Len(heap) = 2
    /\ __getattr__(heap[1]) = enc[1].src[2].value

\* C14: DocSet.load(T, raw, allow_double_load) for a raw whose uid is that of
\* a loaded entry raises DoubleLoadException when allow_double_load is
\* false and returns the entry when it is true; either way no document and
\* no entry changes, whatever raw holds.
C14_DoubleLoad ==
    [][(/\ CallOf("load")
        /\ InDocSet(Arg(1), Arg(2).uid)
        /\ heap[in_docset[<<Arg(1), Arg(2).uid>>]].loaded) =>
           /\ Kept
           /\ IF Arg(3)
              THEN /\ outcome' = "returned"
                   /\ out' = <<in_docset[<<Arg(1), Arg(2).uid>>]>>
              ELSE outcome' = "DoubleLoadException"]_vars

\* load with allow_double_load has returned a loaded entry whose value
\* differs from the one in raw
C14_Witness ==
    /\ doc_op = "load"
    /\ outcome = "returned"
    /\ enc[1].src[3]
    /\ enc[1].src[2].full
    /\ heap[out[1]].loaded
    /\ heap[out[1]].value # enc[1].src[2].value
    /\ in_docset[<<enc[1].src[1], enc[1].src[2].uid>>] = out[1]

\* C15: in every state each key of the DocSet maps to one document, of the
\* key's type and uid; no call replaces or removes an entry; add and create
\* for a key that is present raise ValueError and change nothing, and for
\* an absent key register the document; get changes nothing and returns
\* the entry or None.
C15_DocSetMap ==
    /\ [](\A k \in DOMAIN in_docset :
              /\ in_docset[k] \in 1..Len(heap)
              /\ DocKey(heap[in_docset[k]]) = k)
    /\ [][/\ \A k \in DOMAIN in_docset :
                 k \in DOMAIN in_docset' /\ in_docset'[k] = in_docset[k]
          /\ CallOf("add") =>
                 IF DocKey(heap[Arg(1)]) \in DOMAIN in_docset
                 THEN outcome' = "ValueError" /\ Kept
                 ELSE /\ outcome' = "returned"
                      /\ in_docset'[DocKey(heap[Arg(1)])] = Arg(1)
          /\ CallOf("create") =>
                 IF InDocSet(Arg(1), Arg(2))
                 THEN outcome' = "ValueError" /\ Kept
                 ELSE /\ outcome' = "returned"
                      /\ in_docset'[<<Arg(1), Arg(2)>>] = Len(heap) + 1
                      /\ heap' = Append(heap, _create_unloaded(Arg(1), Arg(2)))
          /\ CallOf("get") =>
                 /\ Kept
                 /\ outcome' = "returned"
                 /\ out'[1] = IF InDocSet(Arg(1), Arg(2))
                              THEN in_docset[<<Arg(1), Arg(2)>>] ELSE 0]_vars

\* add was called with a second document of a type and uid that is present
C15_Witness ==
    /\ doc_op = "add"
    /\ outcome = "ValueError"
    /\ in_docset[DocKey(heap[enc[1].src[1]])] # enc[1].src[1]

-----------------------------------------------------------------------------
(* Properties of the operations over a schema *)

\* a call of a schema operation has ended
Ended == ~cur.active /\ trace # <<>>

ChildValue(v, k) == IF k \in DOMAIN v.items THEN v.items[k] ELSE NoneVal

\* what the operation does on child k alone
ChildCall(k) ==
    call(cur.op, cur.graph.edges[k], ChildValue(cur.value, k), cur.error_mode, <<k>>)

Missing(k) == k \notin DOMAIN cur.value.items /\ ~default_nones(cur.op)

Failing ==
    {k \in 1..Len(cur.graph.edges) : Missing(k) \/ ChildCall(k).exc # "None"}

ErrorOf(k) == IF Missing(k) THEN Invalid("missing_attr") ELSE ChildCall(k).err

\* the children the call was made on
VisitedChildren ==
    {trace[i].path[1] : i \in {j \in 1..Len(trace) : Len(trace[j].path) = 1}}

Min(S) == CHOOSE k \in S : \A j \in S : k <= j

\* C18: over a schema and a dict, with error_mode CHECK_ALL the call visits
\* every child that is present and raises one Invalid whose entries are
\* exactly the failing children, each under its name with its own error
\* (validating {} against two required fields: two entries, each one
\* missing_attr); with CHECK it raises an Invalid with the first failing
\* child as its only entry and visits no child after it; with no failing
\* child nothing is raised
C18_ErrorAggregation ==
    Ended /\ cur.graph.kind = "Schema" /\ cur.value.kind = "dict"
          /\ cur.error_mode # IGNORE =>
        /\ Failing = {} => raised.type = "None"
        /\ Failing # {} =>
               /\ raised.type = "Invalid"
               /\ raised.err.own = <<>>
               /\ \A k \in DOMAIN raised.err.sub : raised.err.sub[k] = ErrorOf(k)
        /\ Failing # {} /\ cur.error_mode = CHECK_ALL =>
               /\ DOMAIN raised.err.sub = Failing
               /\ VisitedChildren = {k \in 1..Len(cur.graph.edges) : ~Missing(k)}
        /\ Failing # {} /\ cur.error_mode = CHECK =>
               /\ DOMAIN raised.err.sub = {Min(Failing)}
               /\ VisitedChildren = {k \in 1..Min(Failing) : ~Missing(k)}
        /\ cur.op = "validate" /\ cur.value = Dict(<<>>) /\ Len(cur.graph.edges) = 2 =>
               raised.err.sub =
                   IF cur.error_mode = CHECK_ALL
                   THEN <<Invalid("missing_attr"), Invalid("missing_attr")>>
                   ELSE <<Invalid("missing_attr")>>

\* validate(Schema().of(a=Int(), b=Int()), {}) with CHECK_ALL has raised
\* a: [missing_attr], b: [missing_attr]
C18_Witness ==
    /\ Ended
    /\ cur.op = "validate"
    /\ cur.error_mode = CHECK_ALL
    /\ cur.graph = SchemaOf(<<IntLeaf, IntLeaf>>)
    /\ cur.value = Dict(<<>>)
    /\ raised.type = "Invalid"
    /\ DOMAIN raised.err.sub = {1, 2}
    /\ Failing = {1, 2}

\* the value has the shape the descriptor walks: a dict wherever a Schema
\* is, with every key the operation fetches, and an int wherever a
\* Polymorph picks a type
RECURSIVE Fits(_, _, _)
Fits(op, g, v) ==
    IF g.kind = "Int" THEN TRUE
    ELSE IF g.kind = "Polymorph" THEN op = "traverse" \/ v.kind = "int"
    ELSE /\ v.kind = "dict"
         /\ \A k \in 1..Len(g.edges) :
                /\ k \in DOMAIN v.items \/ default_nones(op)
                /\ Fits(op, g.edges[k], ChildValue(v, k))

IgnoreOps == {"traverse", "clone", "mutate", "dictify"}

-----------------------------------------------------------------------------
(* Properties of dictify with a doc_storage *)

\* C20 as stated: a dictify that was given a doc_storage returns only
\* dict(uid=...) of the top-level document, and when it has returned the
\* store holds one entry per document reached, under its uid
C20_DocStorage ==
    doc_op = "dictify" /\ outcome = "returned" /\ doc_storage.given =>
        /\ out = <<Stub(Root)>>
        /\ DOMAIN doc_storage.items = {heap[d].uid : d \in Reached}

-----------------------------------------------------------------------------
(* Properties of merge as a function *)

MergeCalled == "level" \in DOMAIN cur /\ cur.level = "merge"

NonEmpty(lists) == SelectSeq(lists, LAMBDA l : l # <<>>)

\* the first non-empty list whose head occurs in no remaining list's tail
FreeHeads(lists) ==
    {i \in 1..Len(lists) :
        \A j \in 1..Len(lists) : Head(lists[i]) \notin Range(Tail(lists[j]))}

\* the reference linearization: empty lists are ignored; select, output,
\* remove the head from every list that starts with it, until all are empty
RECURSIVE Linearize(_, _)
Linearize(lists, acc) ==
    LET rest == NonEmpty(lists) IN
    IF rest = <<>> THEN [ok |-> TRUE, order |-> acc]
    ELSE IF FreeHeads(rest) = {} THEN [ok |-> FALSE, order |-> <<>>]
    ELSE LET i == CHOOSE c \in FreeHeads(rest) : \A d \in FreeHeads(rest) : c <= d
             h == Head(rest[i])
         IN  Linearize([j \in 1..Len(rest) |->
                           IF Head(rest[j]) = h THEN Tail(rest[j]) ELSE rest[j]],
                       Append(acc, h))

\* C23: merge(lists) is the reference linearization of lists for every input;
\* in particular an input made only of empty lists gives the empty order.
C23_MergeIsReference ==
    MergeCalled => cur.result = Linearize(cur.lists, <<>>)

\* merge agrees with the reference linearization on every input that is
\* empty or holds a non-empty list
MergeAgreesOtherwise ==
    MergeCalled /\ (cur.lists = <<>> \/ NonEmpty(cur.lists) # <<>>) =>
        cur.result = Linearize(cur.lists, <<>>)

\* merge([[]]) raised
OnlyEmptyRaised ==
    MergeCalled /\ cur.lists = <<(<<>>)>> /\ ~cur.result.ok

-----------------------------------------------------------------------------
(* Properties of defaults for keyword arguments *)

KwCalled == "level" \in DOMAIN cur /\ cur.level = "kw"

\* the default a registry has for a name: its own, else the one of the
\* registry it was derived from
RECURSIVE Inherited(_, _)
Inherited(r, a) ==
    IF defaults[r][a] # NoArg THEN defaults[r][a]
    ELSE IF sub_of[r] = 0 THEN NoArg
    ELSE Inherited(sub_of[r], a)

\* what the handler must receive for name a
Expected(a) ==
    IF cur.kwargs[a] # NoArg THEN cur.kwargs[a]
    ELSE IF Inherited(cur.reg, a) # NoArg THEN Given(Inherited(cur.reg, a).v)
    ELSE NoArg

KwOutcome ==
    KwCalled =>
        IF Expected("x") = NoArg
        THEN raised.type = "TypeError" /\ trace = <<>>
        ELSE /\ raised.type = "None"
             /\ Len(trace) = 1
             /\ \A a \in ArgNames : trace[1].kwargs[a] = Expected(a)

\* C21: a handler receives for each name the caller's argument if one was
\* given, else the default of the registry or, failing that, of the registry
\* it derives from, and the call fails with TypeError when the handler's
\* argument has neither; registering a default changes no other registry's.
C21_Defaults ==
    [][/\ KwOutcome'
       /\ \A r \in Regs : defaults'[r] # defaults[r] =>
              \A q \in Regs \ {r} : defaults'[q] = defaults[q]]_vars

\* a call without x on a derived registry whose own default for x differs
\* from its parent's got the derived registry's default
C21_Witness ==
    /\ KwCalled
    /\ cur.kwargs["x"] = NoArg
    /\ sub_of[cur.reg] # 0
    /\ defaults[cur.reg]["x"] # NoArg
    /\ defaults[sub_of[cur.reg]]["x"] # NoArg
    /\ defaults[sub_of[cur.reg]]["x"].v # defaults[cur.reg]["x"].v
    /\ Len(trace) = 1
    /\ trace[1].kwargs["x"] = Given(defaults[cur.reg]["x"].v)

-----------------------------------------------------------------------------
(* Properties of the value a handler is invoked with *)

\* C24: every handler invoked by a call on a Dispatcher or on a DispatchSuper
\* received the target with its SuperMarker peeled off, never the token.
C24_InvokePeels ==
    \A i \in 1..Len(trace) :
        trace[i].level = "disp" =>
            /\ ~trace[i].val.sm
            /\ trace[i].val = Unwrap(trace[i].target)

\* the handlers invoked through a Dispatcher received the peeled target
InvokePeelsOnDispatcher ==
    \A i \in 1..Len(trace) :
        trace[i].level = "disp" /\ ~trace[i].dt.super =>
            trace[i].val = Unwrap(trace[i].target)

-----------------------------------------------------------------------------
(* Properties of SuperMarker truncation *)

\* the calls d(SuperMarker(k, v)) whose k is one of the keys of v
MarkedCall(c) ==
    /\ c.level = "disp"
    /\ c.target.sm
    /\ ~c.target.val.sm
    /\ c.target.key \in Range(_to_keys(c.dt, c.target.val))

\* C26: a call on SuperMarker(k, v) invokes a default or the handler of a key
\* that comes after k in v's key list, whatever the value of k (also 0).
C26_TruncationAnyKey ==
    \A i \in 1..Len(trace) :
        MarkedCall(trace[i]) =>
            \/ IsDefault(trace[i].fn)
            \/ trace[i].fn.key \in
                   Range(slice_at(_to_keys(trace[i].dt, trace[i].target.val),
                                  trace[i].target.key))

\* the same for the keys that are true values
TruncationTruthyKey ==
    \A i \in 1..Len(trace) :
        MarkedCall(trace[i]) /\ Truthy(trace[i].target.key) =>
            \/ IsDefault(trace[i].fn)
            \/ trace[i].fn.key \in
                   Range(slice_at(_to_keys(trace[i].dt, trace[i].target.val),
                                  trace[i].target.key))

-----------------------------------------------------------------------------
(* Properties of clone with new_uids=True *)

SourceUids == {heap[d].uid : d \in 1..nsrc}

\* C25: clone with new_uids=True ends without exhausting the stack, also on
\* cyclic graphs, and when it returns it has made exactly one new document
\* per source document reached, each with a uid no source document has, and
\* every encounter of a source document got the one copy made for it.
C25_NewUidsOnePerSource ==
    doc_op = "clone_new_uids" =>
        /\ Normal
        /\ outcome = "returned" =>
               /\ Len(heap) - nsrc = Cardinality(Reached)
               /\ \A n \in (nsrc + 1)..Len(heap) : heap[n].uid \notin SourceUids
               /\ \A i, j \in 1..Len(enc) :
                      enc[i].src = enc[j].src <=> enc[i].res = enc[j].res

\* every copy gets a uid that no source document and no other copy has
NewUidsFresh ==
    doc_op = "clone_new_uids" =>
        /\ \A n \in (nsrc + 1)..Len(heap) : heap[n].uid \notin SourceUids
        /\ \A n, m \in (nsrc + 1)..Len(heap) : heap[n].uid = heap[m].uid => n = m

\* the clone of a closed list ended with RecursionError
CloneNewUidsOverflow ==
    doc_op = "clone_new_uids" /\ outcome = "RecursionError" /\ Sources = mklist(2, TRUE)

\* the clone of a document listing one document twice made two copies of it
CloneNewUidsNoSharing ==
    /\ doc_op = "clone_new_uids" /\ outcome = "returned"
    /\ nsrc = 2 /\ Root = 1 /\ heap[1].kids = <<2, 2>>
    /\ heap[out[1]].kids[1] # heap[out[1]].kids[2]

-----------------------------------------------------------------------------
(* Properties of successive top-level calls *)

Encountered == {enc[i].src : i \in 1..Len(enc)}

\* the documents earlier clone calls returned
EarlierCopies ==
    UNION {{trace[k].enc[j].res : j \in 1..Len(trace[k].enc)} :
               k \in {c \in 1..Len(trace) : trace[c].op = "clone"}}

\* the number of earlier calls of mutate that mutated document d
RECURSIVE MutatedBefore(_, _)
MutatedBefore(d, k) ==
    IF k = 0 THEN 0
    ELSE MutatedBefore(d, k - 1) +
         (IF /\ trace[k].op = "mutate"
             /\ \E j \in 1..Len(trace[k].enc) : trace[k].enc[j].src = d
          THEN 1 ELSE 0)

RECURSIVE Expanded(_, _)
Expanded(v, n) == IF n = 0 THEN v ELSE expand_string(Expanded(v, n - 1))

\* C27: in every top-level call, first or later, the processed set and the
\* DocSet hold only what this call recorded; the first encounter of a document
\* in the call processes it (full form, visit, mutation, node, a copy no earlier
\* call returned); and a mutate that returns has expanded every document it
\* reached once more than the earlier calls had.
C27_FreshPerCall ==
    /\ doc_op \in {"dictify", "mutate", "traverse", "validate", "graphize"} =>
           /\ _tv_docs_processed \subseteq Encountered
           /\ \A i \in 1..Len(enc) :
                  FirstOf(i) => enc[i].res \notin {"stub", "skip", "cached"}
    /\ doc_op = "clone" =>
           /\ \A key \in DOMAIN in_docset :
                  \E d \in Encountered : DocKey(heap[d]) = key
           /\ \A i \in 1..Len(enc) : enc[i].res \notin EarlierCopies
    /\ doc_op = "mutate" /\ outcome = "returned" =>
           \A d \in Reached :
               heap[d].value = Expanded(d, MutatedBefore(d, Len(trace)) + 1)

\* a second mutate of the closed list of three nodes has returned
C27_Witness ==
    /\ Len(trace) = 1
    /\ trace[1].op = "mutate"
    /\ doc_op = "mutate"
    /\ outcome = "returned"
    /\ Sources = [i \in 1..3 |->
                     [mklist(3, TRUE)[i] EXCEPT
                          !.value = expand_string(expand_string(i))]]

-----------------------------------------------------------------------------
(* Properties of a load that fails *)

LoadFailed == doc_op = "Document.load" /\ outcome = "TypeError"

\* C28: after a Document.load that raised TypeError for an unexpected field
\* name the document is unloaded, so that reading its declared field raises
\* UnloadedDocumentException and a load with valid fields can still be made.
C28_FailedLoadLeavesUnloaded ==
    LoadFailed =>
        /\ ~heap[enc[1].src[1]].loaded
        /\ __getattr__(heap[enc[1].src[1]]) = "UnloadedDocumentException"

\* none of the fields is set by a load that raised TypeError
FailedLoadSetsNoField ==
    LoadFailed => heap[enc[1].src[1]].value = NoAttr

\* a load with valid fields, made after a load of the same document raised
\* TypeError, raised DoubleLoadException
LoadAfterFailedLoad ==
    /\ doc_op = "Document.load"
    /\ Len(enc[1].src) = 2
    /\ outcome = "DoubleLoadException"
    /\ heap[enc[1].src[1]].value = NoAttr

-----------------------------------------------------------------------------
(* Properties of DocSet.load with allow_double_load *)

\* C29: a DocSet.load called with allow_double_load=True never ends in
\* DoubleLoadException, whatever documents of the DocSet are loaded and
\* wherever raw holds their full forms; the loaded documents stay as they were.
C29_AllowDoubleLoad ==
    doc_op = "load" /\ enc[1].src[3] => outcome # "DoubleLoadException"

\* with allow_double_load=True a raw whose own uid names a loaded document
\* gives that document back
AllowDoubleLoadTopLevel ==
    [][CallOf("load") /\ Arg(3) /\ InDocSet(Arg(1), Arg(2).uid)
          /\ heap[in_docset[<<Arg(1), Arg(2).uid>>]].loaded
       => outcome' = "returned" /\ out' = <<in_docset[<<Arg(1), Arg(2).uid>>]>> /\ Kept]_vars

\* load(T, raw, allow_double_load=True) raised DoubleLoadException for a raw
\* that holds the full form of another, loaded, document of the DocSet
NestedDoubleLoad ==
    /\ doc_op = "load" /\ enc[1].src[3]
    /\ outcome = "DoubleLoadException"
    /\ Len(enc[1].src[2].kids) = 1
    /\ enc[1].src[2].kids[1].full
    /\ enc[1].src[2].kids[1].uid # enc[1].src[2].uid

(* Properties of dictify on unloaded documents *)

\* C30: dictify of a graph that holds an unloaded document does not raise
\* UnloadedDocumentException, and what it writes for the unloaded document
\* is dict(uid=doc.uid) and nothing more.
C30_UnloadedDictifiesToStub ==
    doc_op = "dictify" =>
        /\ outcome # "UnloadedDocumentException"
        /\ \A i \in 1..Len(enc) :
               ~heap[enc[i].src].loaded => enc[i].res = "stub"

\* what dictify_document does instead: an unloaded document met for the
\* first time goes to dictify_obj like a loaded one, which raises out of
\* hasattr or writes every declared field, None for the ones not set
UnloadedDictifiedInFull ==
    doc_op = "dictify" =>
        \A i \in 1..Len(enc) :
            (~heap[enc[i].src].loaded /\ FirstOf(i)) =>
                \/ enc[i].res = "raised" /\ outcome = "UnloadedDocumentException"
                \/ /\ enc[i].res = "full"
                   /\ \E k \in 1..Len(out) :
                          out[k] = <<"full", heap[enc[i].src].uid, NoneValue>>

\* dictify of an unloaded document ended in UnloadedDocumentException
UnloadedDictifyRaised ==
    /\ doc_op = "dictify"
    /\ outcome = "UnloadedDocumentException"
    /\ ~heap[enc[Len(enc)].src].loaded

\* dictify of an unloaded document returned all its fields, as None
UnloadedDictifyNones ==
    /\ doc_op = "dictify"
    /\ outcome = "returned"
    /\ ~heap[enc[1].src].loaded
    /\ out = << <<"full", heap[enc[1].src].uid, NoneValue>>, End >>

-----------------------------------------------------------------------------
(* Properties of dictify and undictify as inverses *)

Trip == cur # [active |-> FALSE] /\ cur.level = "trip"
TripDone(op) == Trip /\ cur.op = op /\ ~cur.active

\* validate(T, x) returns
Valid(g, x) == validate(g, x).exc = "None"

\* equal in all the descriptor describes: leaves are equal, objects are of
\* the same class with equal fields, mappings have the same keys with equal
\* fields and the same items under the other keys
RECURSIVE StructEq(_, _, _)
StructEq(g, a, b) ==
    IF g.kind \in {"Int", "String"} THEN a = b
    ELSE /\ a.kind = b.kind
         /\ a.kind \in {"object", "dict"}
         /\ a.kind = "object" => a.cls = b.cls
         /\ a.kind = "dict" =>
                /\ DOMAIN a.items = DOMAIN b.items
                /\ Extras(g, a) = Extras(g, b)
         /\ \A k \in 1..Len(g.edges) :
                /\ k \in DOMAIN a.items
                /\ k \in DOMAIN b.items
                /\ StructEq(g.edges[k], a.items[k], b.items[k])

\* the check of validate_mapping for keys the schema does not have, made on
\* the dicts of a plain form
RECURSIVE NoUnexpected(_, _)
NoUnexpected(g, d) ==
    IF g.kind \in {"Int", "String"} \/ d.kind # "dict" THEN TRUE
    ELSE /\ (g.kind = "Mapping" /\ g.extra_field_policy \in {"error", "discard"})
                => extra_keys(g, d) = {}
         /\ \A k \in 1..Len(g.edges) :
                k \in DOMAIN d.items => NoUnexpected(g.edges[k], d.items[k])

\* a valid plain form: undictify takes it, what it gives is valid, and
\* validate has no complaint about the keys of its dicts
ValidPlain(g, d) ==
    /\ undictify(g, d).exc = "None"
    /\ Valid(g, undictify(g, d).result)
    /\ NoUnexpected(g, d)

\* C22: for descriptors made of objects and mappings over Int and String
\* leaves, dictify of a valid value returns and undictify of its result
\* gives a value structurally equal to it; undictify of a valid plain form
\* returns and dictify of its result is the plain form again, as for Point
\* and {'x': -12, 'y': 1, 'label': 'foo'}.
C22_RoundTrip ==
    Trip =>
        /\ (cur.op = "dictify" /\ Valid(cur.graph, cur.value)) =>
               /\ cur.first.exc = "None"
               /\ ~cur.active =>
                      /\ cur.second.exc = "None"
                      /\ StructEq(cur.graph, cur.second.result, cur.value)
        /\ (cur.op = "undictify" /\ ValidPlain(cur.graph, cur.value)) =>
               /\ cur.first.exc = "None"
               /\ ~cur.active =>
                      /\ cur.second.exc = "None"
                      /\ cur.second.result = cur.value
        /\ (cur.op = "undictify" /\ cur.graph = Point /\ cur.value = plain_data) =>
               /\ cur.first = Returns(Instance("Point", plain_data.items), cur.first.visits)
               /\ ~cur.active => cur.second.result = plain_data

\* Point.undictify(plain_data).dictify() has returned plain_data
C22_Witness ==
    /\ TripDone("undictify")
    /\ cur.graph = Point
    /\ cur.value = plain_data
    /\ ValidPlain(Point, plain_data)
    /\ cur.second.result = plain_data

\* a valid object holding a valid mapping with a key its schema does not
\* have came back from dictify and undictify
ValueRoundTrip ==
    /\ TripDone("dictify")
    /\ cur.graph = ObjectOf("Holder", <<MappingOf("save", <<IntLeaf>>)>>)
    /\ Valid(cur.graph, cur.value)
    /\ 2 \in DOMAIN cur.value.items[1].items
    /\ cur.second.result = cur.value

\* a plain form with a key that validate rejects: where undictify takes it,
\* the key is not in what dictify gives back
UnexpectedKeysDropped ==
    (TripDone("undictify") /\ ~NoUnexpected(cur.graph, cur.value)) =>
        /\ cur.second.exc = "None"
        /\ cur.second.result # cur.value

UnexpectedKeyDropped ==
    /\ TripDone("undictify")
    /\ cur.graph = MappingOf("discard", <<IntLeaf, StrLeaf>>)
    /\ cur.value = Dict(<<IntOf(1), StrOf("foo"), IntOf(1)>>)
    /\ cur.second.result = Dict(<<IntOf(1), StrOf("foo")>>)

====
